---- MODULE Spec2Model ----
(***************************************************************************)
(* update-mod-nss: transactional replacement of the mod_nss database       *)
(* directory ("generation") behind the /etc/httpd/alias symbolic link.     *)
(*                                                                         *)
(* The model follows main() of update-mod-nss.c step by step.  The state   *)
(* is the part of the filesystem under /etc/httpd that the program reads   *)
(* and writes, the credentials of the process, the wall clock, and the     *)
(* locals of the running process.                                          *)
(***************************************************************************)
EXTENDS Integers, Sequences, FiniteSets, TLC

VARIABLES
    fs,     \* generation directories of /etc/httpd: name -> (path -> entry)
    conf,   \* the entries "alias" and "alias.new" of /etc/httpd
    pc,     \* position of the running process in main()
    loc,    \* globals and locals of the running process
    cred,   \* effective uid/gid of the running process
    now,    \* wall clock, in seconds after the model's epoch
    run,    \* number of the current invocation of the program
    env,    \* inputs: hostname, certificate file, NSS user, mount options
    snap,   \* the old generation as it was when the current run resolved it
    hist,   \* what the earlier invocations did (names used, exit status)
    raced   \* another process wrote a store file while it was being copied

vars == <<fs, conf, pc, loc, cred, now, run, env, snap, hist, raced>>

----------------------------------------------------------------------------
(* Bounds of the model *)

MaxClock == 2       \* the clock runs over seconds 0..MaxClock
MaxRuns == 2        \* invocations of the program, one after the other

----------------------------------------------------------------------------
(* Program constants *)

NSSDB_DIR_PTN_LEN == 20     \* strlen("alias-YYYYMMDDHHMMSS")
NSSDB_DIR_TS_LEN == 14      \* strlen("YYYYMMDDHHMMSS")
NSSDB_DIR_PREFIX == <<"a", "l", "i", "a", "s", "-">>
MODE_NEWDIR == 488          \* 0750, mkdirat in new_nssdb_dir
MODE_DBFILE == 432          \* 0660, openat/fchmod in copy_nssdb_files
MODE_FILE == 384            \* 0600, openat in copy_file
MODE_SUBDIR == 448          \* 0700, mkdirat in copy_subdir
MODE_MASK == 4095           \* 07777, fchmod in copy_metadata
MAX_YEAR == 9999            \* new_nssdb_dir rejects later years
TM_YEAR_BASE == 1900        \* struct tm counts years from 1900
EXIT_SUCCESS == 0
EXIT_FAILURE == 1

names == <<"cert8.db", "key3.db", "secmod.db">>

----------------------------------------------------------------------------
(* Generation names: gmtime() and strftime("%Y%m%d%H%M%S").  A C string  *)
(* is the sequence of its characters.                                      *)

Digit == <<"0", "1", "2", "3", "4", "5", "6", "7", "8", "9">>

RECURSIVE Decimal(_)
Decimal(n) == IF n < 10 THEN <<Digit[n + 1]>>
              ELSE Append(Decimal(n \div 10), Digit[(n % 10) + 1])

(* Faulty variant: fields below ten are written as one digit.             *)
Pad2_unpadded(n) == Decimal(n)

Pad2(n) == <<Digit[((n \div 10) % 10) + 1], Digit[(n % 10) + 1]>>

(* gmtime for the second sec of the day that lies day days after          *)
(* 1970-01-01 (time_t = day * 86400 + sec), in the proleptic Gregorian    *)
(* calendar: years are counted from 1 March in eras of 400 years.         *)
GmtimeAt(day, sec) ==
    LET z   == day + 719468
        era == z \div 146097
        doe == z - era * 146097
        yoe == (doe - doe \div 1460 + doe \div 36524 - doe \div 146096)
                   \div 365
        doy == doe - (365 * yoe + yoe \div 4 - yoe \div 100)
        mp  == (5 * doy + 2) \div 153
        mon == IF mp < 10 THEN mp + 3 ELSE mp - 9
        y   == yoe + era * 400 + (IF mon <= 2 THEN 1 ELSE 0)
    IN  [tm_year |-> y - TM_YEAR_BASE,
         tm_mon  |-> mon - 1,
         tm_mday |-> doy - (153 * mp + 2) \div 5 + 1,
         tm_hour |-> sec \div 3600,
         tm_min  |-> (sec \div 60) % 60,
         tm_sec  |-> sec % 60]

(* The model's epoch is 2023-01-01 00:00:00 UTC, EpochDay days after      *)
(* 1970-01-01.                                                             *)
EpochDay == 19358

Gmtime(t) == GmtimeAt(EpochDay + t \div 86400, t % 86400)

Strftime(tm) ==
    Decimal(tm.tm_year + TM_YEAR_BASE) \o Pad2(tm.tm_mon + 1) \o Pad2(tm.tm_mday)
        \o Pad2(tm.tm_hour) \o Pad2(tm.tm_min) \o Pad2(tm.tm_sec)

DirNameAt(t) == NSSDB_DIR_PREFIX \o Strftime(Gmtime(t))

GenNames == {DirNameAt(t) : t \in 0..MaxClock}

----------------------------------------------------------------------------
(* Filesystem entries *)

Root == <<>>

Paths == {Root, <<"cert8.db">>, <<"key3.db">>, <<"secmod.db">>,
          <<"f">>, <<"l">>, <<"d">>, <<"d", "g">>, <<"d", "e">>,
          <<"d", "e", "h">>}

Parent(p) == SubSeq(p, 1, Len(p) - 1)
Last(p) == p[Len(p)]
Children(tree, p) ==
    {q \in Paths : q # Root /\ Parent(q) = p /\ tree[q].type # "none"}

NoEnt == [type |-> "none", content |-> {}, target |-> <<>>,
          uid |-> 0, gid |-> 0, mode |-> 0, atime |-> 0, mtime |-> 0]

EmptyTree == [p \in Paths |-> NoEnt]

(* Timestamp the kernel gives to what is created or written at time t.    *)
Stamp(t) == 100 + t

(* st_size of a regular file: the number of items of its content.         *)
Size(e) == Cardinality(e.content)

(* A certificate record of the store kept in cert8.db.                    *)
Rec(nick, cert) == 10 * nick + cert
Nick(r) == r \div 10

NoLink == [type |-> "none", target |-> <<>>, uid |-> 0, gid |-> 0]

(* Directory-entry changes set the directory's modification time.         *)
CreateIn(tree, p, e, t) ==
    IF p = Root THEN [tree EXCEPT ![p] = e]
    ELSE [tree EXCEPT ![p] = e, ![Parent(p)].mtime = t]

RemoveFrom(tree, p, t) ==
    IF p = Root THEN [tree EXCEPT ![p] = NoEnt]
    ELSE [tree EXCEPT ![p] = NoEnt, ![Parent(p)].mtime = t]

(* Reading an entry sets its access time unless the mount says noatime.   *)
ReadTouch(tree, p, t) ==
    IF env.atime THEN [tree EXCEPT ![p].atime = t] ELSE tree

IsDir(name) == name \in DOMAIN fs /\ fs[name][Root].type = "dir"

----------------------------------------------------------------------------
(* Initial state: one generation, referenced by the alias *)

OldReg(i, c, m) == [type |-> "reg", content |-> c, target |-> <<>>,
                    uid |-> 10 + i, gid |-> 20 + i, mode |-> m,
                    atime |-> 30 + i, mtime |-> 40 + i]
OldLnk(i, tgt) == [type |-> "lnk", content |-> {}, target |-> tgt,
                   uid |-> 10 + i, gid |-> 20 + i, mode |-> 511,
                   atime |-> 30 + i, mtime |-> 40 + i]
OldDir(i, m) == [type |-> "dir", content |-> {}, target |-> <<>>,
                 uid |-> 10 + i, gid |-> 20 + i, mode |-> m,
                 atime |-> 30 + i, mtime |-> 40 + i]

(* Stores: no record; only another host's; one or several of this host's *)
InitStores == {{}, {Rec(2, 1)}, {Rec(1, 1), Rec(2, 2)},
               {Rec(1, 1), Rec(1, 2), Rec(2, 3)}}

StoreOnly(store, key) ==
    [p \in Paths |->
        CASE p = Root            -> OldDir(0, 493)
          [] p = <<"cert8.db">>  -> OldReg(1, store, 416)
          [] p = <<"key3.db">>   -> OldReg(2, key, 384)
          [] p = <<"secmod.db">> -> OldReg(3, {8}, 420)
          [] OTHER               -> NoEnt]

FullTree(store, key) ==
    [p \in Paths |->
        CASE p = <<"f">>           -> OldReg(4, {5, 6}, 420)
          [] p = <<"l">>           -> OldLnk(5, <<".", ".">>)
          [] p = <<"d">>           -> OldDir(6, 493)
          [] p = <<"d", "g">>      -> OldReg(7, {9}, 384)
          [] p = <<"d", "e">>      -> OldDir(8, 448)
          [] p = <<"d", "e", "h">> -> OldReg(9, {}, 292)
          [] OTHER                 -> StoreOnly(store, key)[p]]

InitTrees == {StoreOnly(s, k) : s \in InitStores, k \in {{}, {7}}}
                \cup {FullTree(s, k) : s \in InitStores, k \in {{}, {7}}}

CertFiles == {0, 1, 4}      \* 0: missing, empty or undecodable

(* What fstat() reports of an entry.                                      *)
Stat(e) == [type |-> e.type, size |-> IF e.type = "lnk" THEN Len(e.target)
                                      ELSE Size(e),
            uid |-> e.uid, gid |-> e.gid, mode |-> e.mode,
            atime |-> e.atime, mtime |-> e.mtime]

(* fds counts the file descriptors and directory streams the process    *)
(* holds; main has opened the configuration directory.  exit() closes     *)
(* them all.                                                               *)
NoLoc == [old_dbdir_name |-> <<>>, new_dbdir_name |-> <<>>,
          linkst |-> NoLink, name |-> 1, srcst |-> Stat(NoEnt),
          saved |-> [uid |-> 0, gid |-> 0], cert |-> 0, list |-> {},
          slot |-> FALSE, stack |-> <<>>, now |-> -1, status |-> -1,
          at |-> "", fds |-> 1]

(* The program is started by root.                                        *)
InitCred == [uid |-> 0, gid |-> 0]

Init ==
    /\ \E t \in InitTrees :
          fs = [n \in GenNames |-> IF n = DirNameAt(0) THEN t ELSE EmptyTree]
    /\ conf = [alias |-> [type |-> "lnk", target |-> DirNameAt(0),
                          uid |-> 3, gid |-> 4],
               aliasnew |-> NoLink]
    /\ pc = "resolve"
    /\ loc = NoLoc
    /\ cred = InitCred
    /\ now = 0
    /\ run = 1
    /\ \E c \in CertFiles, a \in BOOLEAN :
          env = [hostname |-> 1, certfile |-> c, nss_uid |-> 48,
                 nss_gid |-> 48, atime |-> a]
    /\ snap = fs[DirNameAt(0)]
    /\ hist = <<>>
    /\ raced = FALSE

----------------------------------------------------------------------------
(* Other inputs: what else the alias can be, and what else the old        *)
(* generation can hold                                                     *)

(* Names in /etc/httpd besides the generations: the directory itself and  *)
(* its parent, a directory whose name is one character too long, a        *)
(* directory with a dot in its name, a regular file, a symbolic link.      *)
Dot == <<".">>
DotDot == <<".", ".">>
LongName == DirNameAt(0) \o <<"0">>
OddName == <<"m", "y", ".", "d", "b">>
FileName == <<"c", "o", "n", "f">>
LinkName == <<"l", "n", "k">>
SlashName == <<"a", "/", "b">>
GoneName == <<"g", "o", "n", "e">>

OtherNames == {Dot, DotDot, LongName, OddName, FileName, LinkName}

AliasTo(tgt) == [type |-> "lnk", target |-> tgt, uid |-> 3, gid |-> 4]

(* A socket, a device or a FIFO.                                          *)
OldSpecial(i, ty) == [OldReg(i, {}, 420) EXCEPT !.type = ty]

InputStore == {Rec(1, 1), Rec(2, 2)}
GoodTree == FullTree(InputStore, {7})
SmallTree == StoreOnly(InputStore, {7})

(* /etc/httpd and /etc seen as a generation: directories without the      *)
(* store files.                                                            *)
ConfDirTree == [EmptyTree EXCEPT ![Root] = OldDir(0, 493)]

InputTrees ==
    {GoodTree,
     [SmallTree EXCEPT ![<<"key3.db">>] = NoEnt],
     [SmallTree EXCEPT ![<<"key3.db">>] =
         OldLnk(2, <<"s", "e", "c", "m", "o", "d", ".", "d", "b">>)],
     [SmallTree EXCEPT ![<<"secmod.db">>] = OldDir(3, 448)],
     [GoodTree EXCEPT ![<<"f">>] = OldSpecial(4, "fifo")],
     [GoodTree EXCEPT ![<<"d", "g">>] = OldSpecial(7, "chr")],
     [GoodTree EXCEPT ![<<"d", "e", "h">>] = OldSpecial(9, "sock")]}

AliasInputs ==
    {NoLink,
     [type |-> "reg", target |-> <<>>, uid |-> 3, gid |-> 4],
     [type |-> "dir", target |-> <<>>, uid |-> 3, gid |-> 4],
     AliasTo(LongName), AliasTo(SlashName), AliasTo(GoneName),
     AliasTo(FileName), AliasTo(LinkName),
     AliasTo(Dot), AliasTo(DotDot), AliasTo(OddName)}

OtherTree(n, t) ==
    CASE n = DirNameAt(0)        -> t
      [] n \in {Dot, DotDot}     -> ConfDirTree
      [] n \in {LongName, OddName} -> SmallTree
      [] n = FileName            -> [EmptyTree EXCEPT ![Root] = OldReg(0, {1}, 420)]
      [] n = LinkName            -> [EmptyTree EXCEPT ![Root] =
                                        OldLnk(0, DirNameAt(0))]
      [] OTHER                   -> EmptyTree

InitInputs ==
    /\ \/ /\ conf = [alias |-> AliasTo(DirNameAt(0)), aliasnew |-> NoLink]
          /\ \E t \in InputTrees :
                fs = [n \in GenNames \cup OtherNames |-> OtherTree(n, t)]
       \/ /\ \E a \in AliasInputs : conf = [alias |-> a, aliasnew |-> NoLink]
          /\ fs = [n \in GenNames \cup OtherNames |-> OtherTree(n, SmallTree)]
    /\ pc = "resolve"
    /\ loc = NoLoc
    /\ cred = InitCred
    /\ now = 0
    /\ run = 1
    /\ env = [hostname |-> 1, certfile |-> 1, nss_uid |-> 48,
              nss_gid |-> 48, atime |-> TRUE]
    /\ snap = IF conf.alias.type = "lnk" /\ conf.alias.target \in DOMAIN fs
              THEN fs[conf.alias.target] ELSE EmptyTree
    /\ hist = <<>>
    /\ raced = FALSE

(* Times of day and days (counted from 1970-01-01) at which the           *)
(* Allocator is run alone: 0999-12-31, 1000-01-01, 1999-12-31,            *)
(* 2000-02-29, 2000-03-01, 2023-01-01, 2023-09-30, 2024-02-29,            *)
(* 2024-10-01, 2100-02-28, 2100-03-01, 9999-12-31, 10000-01-01.           *)
NamerDays ==
    {-354286, -354285, 10956, 11016, 11017, 19358, 19630, 19782, 19997,
     47540, 47541, 2932896, 2932897}

NamerSeconds == {0, 9, 59, 60, 3599, 3600, 35999, 36000, 86399}

NamerTimes == NamerDays \X NamerSeconds

InitNamer ==
    /\ fs = [n \in {} |-> EmptyTree]
    /\ conf = [alias |-> NoLink, aliasnew |-> NoLink]
    /\ pc = "alloc"
    /\ loc = NoLoc
    /\ cred = InitCred
    /\ now \in NamerTimes
    /\ run = 1
    /\ env = [hostname |-> 1, certfile |-> 1, nss_uid |-> 48,
              nss_gid |-> 48, atime |-> TRUE]
    /\ snap = EmptyTree
    /\ hist = <<>>
    /\ raced = FALSE

(* Generations with symbolic links: to an ancestor ("..", "../.."), to    *)
(* the directory that holds the link ("."), to the link itself, to a       *)
(* directory and a file of the same generation, to an absolute path, and   *)
(* to the name the next generation gets ("../" and that name).             *)
UpTo(name) == <<".", ".", "/">> \o name

LinkTree(a, b, c) ==
    [GoodTree EXCEPT ![<<"l">>] = OldLnk(5, a),
                     ![<<"d", "g">>] = OldLnk(7, b),
                     ![<<"d", "e", "h">>] = OldLnk(9, c)]

LinkTrees ==
    {LinkTree(<<".", ".">>, <<".">>, <<".", ".", "/", ".", ".">>),
     LinkTree(UpTo(DirNameAt(1)), <<"/", "e", "t", "c">>, <<"h">>),
     LinkTree(<<"d">>, <<".", ".", "/", "f">>, UpTo(DirNameAt(2)))}

InitLinks ==
    /\ \E t \in LinkTrees :
          fs = [n \in GenNames |-> IF n = DirNameAt(0) THEN t ELSE EmptyTree]
    /\ conf = [alias |-> AliasTo(DirNameAt(0)), aliasnew |-> NoLink]
    /\ pc = "resolve"
    /\ loc = NoLoc
    /\ cred = InitCred
    /\ now = 0
    /\ run = 1
    /\ env = [hostname |-> 1, certfile |-> 1, nss_uid |-> 48,
              nss_gid |-> 48, atime |-> TRUE]
    /\ snap = fs[DirNameAt(0)]
    /\ hist = <<>>
    /\ raced = FALSE

(* What can be found under the name alias.new: nothing, a symbolic link   *)
(* of an earlier run, a regular file.                                      *)
LeftoverInputs ==
    {NoLink,
     [type |-> "lnk", target |-> GoneName, uid |-> 0, gid |-> 0],
     [type |-> "reg", target |-> <<>>, uid |-> 0, gid |-> 0]}

InitRetry ==
    /\ \E t \in {GoodTree, SmallTree} :
          fs = [n \in GenNames |-> IF n = DirNameAt(0) THEN t ELSE EmptyTree]
    /\ \E l \in LeftoverInputs :
          conf = [alias |-> AliasTo(DirNameAt(0)), aliasnew |-> l]
    /\ pc = "resolve"
    /\ loc = NoLoc
    /\ cred = InitCred
    /\ now = 0
    /\ run = 1
    /\ env = [hostname |-> 1, certfile |-> 1, nss_uid |-> 48,
              nss_gid |-> 48, atime |-> TRUE]
    /\ snap = fs[DirNameAt(0)]
    /\ hist = <<>>
    /\ raced = FALSE

----------------------------------------------------------------------------
(* Termination *)

(* FATAL: the message is logged and the process exits at once; nothing    *)
(* that was created is removed.                                            *)
FATAL == /\ pc' = "fatal"
         /\ loc' = [loc EXCEPT !.fds = 0, !.status = EXIT_FAILURE, !.at = pc,
                               !.stack = <<>>, !.list = {}, !.slot = FALSE,
                               !.srcst = Stat(NoEnt)]

Die == FATAL /\ UNCHANGED <<fs, conf, cred, now, run, env, snap, hist, raced>>

Running == pc \notin {"done", "fatal"}

(* Faulty variant: on a failure the new generation is removed again.      *)
EnvironmentError_cleanup ==
    /\ Running
    /\ FATAL
    /\ fs' = IF loc.new_dbdir_name \in DOMAIN fs
             THEN [fs EXCEPT ![loc.new_dbdir_name] = EmptyTree]
             ELSE fs
    /\ UNCHANGED <<conf, cred, now, run, env, snap, hist, raced>>

(* Any system or library call can fail for a reason outside the model     *)
(* (EIO, ENOMEM, ENOSPC, EACCES ...); every such failure is FATAL.         *)
EnvironmentError == Running /\ Die

(* Time passes between invocations and before the directory is named.     *)
Tick == /\ pc = "resolve"
        /\ now < MaxClock
        /\ now' = now + 1
        /\ UNCHANGED <<fs, conf, pc, loc, cred, run, env, snap, hist, raced>>

----------------------------------------------------------------------------
(* old_nssdb_dir: resolve the alias *)

HasSlash(s) == \E i \in 1..Len(s) : s[i] = "/"

(* Faulty variant: the length of the target is not examined.              *)
OldNssdbDir_noLength ==
    /\ pc = "resolve"
    /\ LET a == conf.alias IN
       IF \/ a.type # "lnk"
          \/ HasSlash(a.target)
          \/ ~IsDir(a.target)
       THEN Die
       ELSE /\ loc' = [loc EXCEPT !.old_dbdir_name = a.target, !.linkst = a,
                                  !.fds = @ + 1]
            /\ pc' = "alloc"
            /\ UNCHANGED <<fs, conf, cred, now, run, env, snap, hist, raced>>

OldNssdbDir ==
    /\ pc = "resolve"
    /\ LET a == conf.alias IN
       IF \/ a.type # "lnk"                        \* openat fails, or !S_ISLNK
          \/ Len(a.target) > NSSDB_DIR_PTN_LEN
          \/ HasSlash(a.target)
          \/ ~IsDir(a.target)                      \* openat O_DIRECTORY
       THEN Die
       ELSE /\ loc' = [loc EXCEPT !.old_dbdir_name = a.target, !.linkst = a,
                                  !.fds = @ + 1]
            /\ pc' = "alloc"
            /\ UNCHANGED <<fs, conf, cred, now, run, env, snap, hist, raced>>

----------------------------------------------------------------------------
(* new_nssdb_dir: name and create the new generation *)

Exists(name) == name \in DOMAIN fs /\ fs[name][Root].type # "none"

(* Faulty variant: everything is created with mode 0777.                  *)
NewDir_open(m) == [type |-> "dir", content |-> {}, target |-> <<>>,
                   uid |-> cred.uid, gid |-> cred.gid, mode |-> 511,
                   atime |-> Stamp(now), mtime |-> Stamp(now)]

NewDir(m) == [type |-> "dir", content |-> {}, target |-> <<>>,
              uid |-> cred.uid, gid |-> cred.gid, mode |-> m,
              atime |-> Stamp(now), mtime |-> Stamp(now)]

NewReg(m) == [NewDir(m) EXCEPT !.type = "reg"]

(* Faulty variant: a directory that already has the name is taken.       *)
NewNssdbDirMkdir_reuse ==
    /\ pc = "alloc"
    /\ LET name == DirNameAt(now)
       IN /\ fs' = IF Exists(name) THEN fs
                   ELSE [fs EXCEPT ![name] =
                            CreateIn(@, Root, NewDir(MODE_NEWDIR), Stamp(now))]
          /\ loc' = [loc EXCEPT !.new_dbdir_name = name, !.now = now]
          /\ pc' = "alloc_chown"
          /\ UNCHANGED <<conf, cred, now, run, env, snap, hist, raced>>

NewNssdbDirMkdir ==
    /\ pc = "alloc"
    /\ LET tm == Gmtime(now)
           ts == Strftime(tm)
           name == NSSDB_DIR_PREFIX \o ts
       IN IF tm.tm_year > MAX_YEAR - TM_YEAR_BASE
          THEN Die
          ELSE IF Len(ts) # NSSDB_DIR_TS_LEN \/ Exists(name)
          THEN /\ pc' = "fatal"
               /\ loc' = [loc EXCEPT !.new_dbdir_name = name, !.now = now,
                                     !.at = pc, !.fds = 0, !.status = EXIT_FAILURE]
               /\ UNCHANGED <<fs, conf, cred, now, run, env, snap, hist, raced>>
          ELSE /\ fs' = [fs EXCEPT ![name] =
                            CreateIn(@, Root, NewDir(MODE_NEWDIR), Stamp(now))]
               /\ loc' = [loc EXCEPT !.new_dbdir_name = name, !.now = now]
               /\ pc' = "alloc_chown"
               /\ UNCHANGED <<conf, cred, now, run, env, snap, hist, raced>>

(* new_nssdb_dir up to mkdirat, at a time given as day and second.        *)
NamerApply ==
    /\ pc = "alloc"
    /\ LET tm == GmtimeAt(now[1], now[2])
           ts == Strftime(tm)
           name == NSSDB_DIR_PREFIX \o ts
       IN IF tm.tm_year > MAX_YEAR - TM_YEAR_BASE
          THEN /\ pc' = "fatal"
               /\ loc' = [loc EXCEPT !.now = now, !.at = pc,
                                     !.fds = 0, !.status = EXIT_FAILURE]
               /\ fs' = fs
          ELSE IF Len(ts) # NSSDB_DIR_TS_LEN \/ Exists(name)
          THEN /\ pc' = "fatal"
               /\ loc' = [loc EXCEPT !.new_dbdir_name = name, !.now = now,
                                     !.at = pc, !.fds = 0, !.status = EXIT_FAILURE]
               /\ fs' = fs
          ELSE /\ fs' = (name :> [EmptyTree EXCEPT ![Root] =
                                    [type |-> "dir", content |-> {},
                                     target |-> <<>>, uid |-> cred.uid,
                                     gid |-> cred.gid, mode |-> MODE_NEWDIR,
                                     atime |-> 0, mtime |-> 0]]) @@ fs
               /\ loc' = [loc EXCEPT !.new_dbdir_name = name, !.now = now]
               /\ pc' = "alloc_chown"
    /\ UNCHANGED <<conf, cred, now, run, env, snap, hist, raced>>

(* The Allocator is run a second time, at any time.                        *)
NamerAgain ==
    /\ pc \in {"alloc_chown", "fatal"}
    /\ hist = <<>>
    /\ run' = run + 1
    /\ now' \in NamerTimes
    /\ hist' = Append(hist, [old |-> loc.old_dbdir_name,
                             new |-> loc.new_dbdir_name,
                             now |-> loc.now,
                             status |-> loc.status])
    /\ loc' = NoLoc
    /\ pc' = "alloc"
    /\ UNCHANGED <<fs, conf, cred, env, snap, raced>>

NewNssdbDirChown ==
    /\ pc = "alloc_chown"
    /\ fs' = [fs EXCEPT ![loc.new_dbdir_name][Root].gid = env.nss_gid]
    /\ loc' = [loc EXCEPT !.name = 1, !.fds = @ + 1]
    /\ pc' = "sf_open"
    /\ UNCHANGED <<conf, cred, now, run, env, snap, hist, raced>>

----------------------------------------------------------------------------
(* copy_nssdb_files and copy_file_contents: the three store files *)

Old == fs[loc.old_dbdir_name]
New == fs[loc.new_dbdir_name]

(* Faulty variant: the destination is opened without O_EXCL, so an        *)
(* existing one is taken over.                                             *)
CopyNssdbFilesOpen_noExcl ==
    /\ pc = "sf_open"
    /\ LET p == <<names[loc.name]>> IN
       IF Old[p].type # "reg"
       THEN Die
       ELSE /\ fs' = [fs EXCEPT ![loc.new_dbdir_name] =
                         CreateIn(@, p, NewReg(MODE_DBFILE), Stamp(now))]
            /\ loc' = [loc EXCEPT !.srcst = Stat(Old[p]), !.fds = @ + 2]
            /\ pc' = "sf_copy"
            /\ UNCHANGED <<conf, cred, now, run, env, snap, hist, raced>>

(* Open the source (a regular file, not followed if a link) and create    *)
(* the destination exclusively.                                            *)
CopyNssdbFilesOpen ==
    /\ pc = "sf_open"
    /\ LET p == <<names[loc.name]>> IN
       IF Old[p].type # "reg" \/ New[p].type # "none"
       THEN Die
       ELSE /\ fs' = [fs EXCEPT ![loc.new_dbdir_name] =
                         CreateIn(@, p, NewReg(MODE_DBFILE), Stamp(now))]
            /\ loc' = [loc EXCEPT !.srcst = Stat(Old[p]), !.fds = @ + 2]
            /\ pc' = "sf_copy"
            /\ UNCHANGED <<conf, cred, now, run, env, snap, hist, raced>>

(* copy_file_contents up to the memcpy: an empty file is not mapped and   *)
(* the function returns at once.                                           *)
Memcpy(tree, p, srcst, src) ==
    IF srcst.size = 0 THEN tree
    ELSE [tree EXCEPT ![p].content = src.content, ![p].mtime = Stamp(now)]

CopyNssdbFilesCopy ==
    /\ pc = "sf_copy"
    /\ LET p == <<names[loc.name]>> IN
       /\ fs' = [fs EXCEPT
                   ![loc.new_dbdir_name] = Memcpy(@, p, loc.srcst, Old[p]),
                   ![loc.old_dbdir_name] =
                       IF loc.srcst.size = 0 THEN @
                       ELSE ReadTouch(@, p, Stamp(now))]
       /\ pc' = IF loc.srcst.size = 0 THEN "sf_meta" ELSE "sf_check"
    /\ UNCHANGED <<conf, loc, cred, now, run, env, snap, hist, raced>>

(* copy_file_contents after the memcpy: the source's mtime is read again. *)
CopyNssdbFilesCheck ==
    /\ pc = "sf_check"
    /\ IF Old[<<names[loc.name]>>].mtime # loc.srcst.mtime
       THEN Die
       ELSE /\ pc' = "sf_meta"
            /\ UNCHANGED <<fs, conf, loc, cred, now, run, env, snap, hist, raced>>

(* Faulty variant: futimens is left out.                                  *)
CopyNssdbFilesMeta_noTimes ==
    /\ pc = "sf_meta"
    /\ LET p == <<names[loc.name]>> IN
       fs' = [fs EXCEPT ![loc.new_dbdir_name][p] =
                [@ EXCEPT !.gid = env.nss_gid, !.mode = MODE_DBFILE]]
    /\ IF loc.name < Len(names)
       THEN /\ loc' = [loc EXCEPT !.name = @ + 1, !.fds = @ - 2]
            /\ pc' = "sf_open"
       ELSE /\ loc' = [loc EXCEPT !.fds = @ - 2]
            /\ pc' = "priv_drop"
    /\ UNCHANGED <<conf, cred, now, run, env, snap, hist, raced>>

(* fchown(-1, nss_gid), fchmod(0660), futimens, close; next file.         *)
CopyNssdbFilesMeta ==
    /\ pc = "sf_meta"
    /\ LET p == <<names[loc.name]>> IN
       fs' = [fs EXCEPT ![loc.new_dbdir_name][p] =
                [@ EXCEPT !.gid = env.nss_gid, !.mode = MODE_DBFILE,
                          !.atime = loc.srcst.atime, !.mtime = loc.srcst.mtime]]
    /\ IF loc.name < Len(names)
       THEN /\ loc' = [loc EXCEPT !.name = @ + 1, !.fds = @ - 2]
            /\ pc' = "sf_open"
       ELSE /\ loc' = [loc EXCEPT !.fds = @ - 2]
            /\ pc' = "priv_drop"
    /\ UNCHANGED <<conf, cred, now, run, env, snap, hist, raced>>

----------------------------------------------------------------------------
(* set_effective_user: setegid, seteuid, then geteuid/getegid are compared *)
(* with what was asked.  A call may report success without effect.         *)

(* Faulty variant: the ids are not read back.                             *)
SetEffectiveUser_unverified(uid, gid, next) ==
    \E u \in {uid, cred.uid}, g \in {gid, cred.gid} :
        /\ cred' = [uid |-> u, gid |-> g]
        /\ pc' = next

SetEffectiveUser(uid, gid, next) ==
    \E u \in {uid, cred.uid}, g \in {gid, cred.gid} :
        /\ cred' = [uid |-> u, gid |-> g]
        /\ IF u # uid \/ g # gid
           THEN pc' = "fatal"
           ELSE pc' = next

MainDropPrivilege ==
    /\ pc = "priv_drop"
    /\ SetEffectiveUser(env.nss_uid, env.nss_gid, "nss_init")
    /\ loc' = IF pc' = "fatal"
              THEN [loc EXCEPT !.saved = cred, !.fds = 0, !.status = EXIT_FAILURE,
                               !.at = pc]
              ELSE [loc EXCEPT !.saved = cred]
    /\ UNCHANGED <<fs, conf, now, run, env, snap, hist, raced>>

MainRestorePrivilege ==
    /\ pc = "priv_restore"
    /\ SetEffectiveUser(loc.saved.uid, loc.saved.gid, "tree_open")
    /\ loc' = IF pc' = "fatal"
              THEN [loc EXCEPT !.fds = 0, !.status = EXIT_FAILURE, !.at = pc]
              ELSE loc
    /\ UNCHANGED <<fs, conf, now, run, env, snap, hist, raced>>

----------------------------------------------------------------------------
(* The certificate store of the new generation (libnss) *)

Cert8 == <<"cert8.db">>

(* Faulty variant: the matching records are deleted before the input     *)
(* certificate is read.                                                    *)
InitLibnss_thenRemove ==
    /\ pc = "nss_init"
    /\ loc' = [loc EXCEPT !.slot = TRUE]
    /\ fs' = [fs EXCEPT ![loc.new_dbdir_name][Cert8].content =
                  {r \in @ : Nick(r) # env.hostname}]
    /\ pc' = "new_cert"
    /\ UNCHANGED <<conf, cred, now, run, env, snap, hist, raced>>

InitLibnss ==
    /\ pc = "nss_init"
    /\ loc' = [loc EXCEPT !.slot = TRUE]
    /\ pc' = "new_cert"
    /\ UNCHANGED <<fs, conf, cred, now, run, env, snap, hist, raced>>

(* new_certificate: /var/lib/acme/<hostname>.crt is read and decoded.      *)
NewCertificate ==
    /\ pc = "new_cert"
    /\ IF env.certfile = 0
       THEN Die
       ELSE /\ loc' = [loc EXCEPT !.cert = env.certfile]
            /\ pc' = "rm_list"
            /\ UNCHANGED <<fs, conf, cred, now, run, env, snap, hist, raced>>

(* remove_old_certs: PK11_ListCertsInSlot ...                              *)
RemoveOldCertsList ==
    /\ pc = "rm_list"
    /\ loc' = [loc EXCEPT !.list = New[Cert8].content]
    /\ pc' = "rm_loop"
    /\ UNCHANGED <<fs, conf, cred, now, run, env, snap, hist, raced>>

(* ... and one turn of its loop: a record is deleted when its nickname is *)
(* the hostname; the loop ends with the list.                              *)
(* Faulty variant: the strcmp test is inverted.                           *)
Matches_inverted(r) == Nick(r) # env.hostname

Matches(r) == Nick(r) = env.hostname

(* Faulty variant: no record is deleted.                                   *)
RemoveOldCertsNode_kept ==
    /\ pc = "rm_loop"
    /\ IF loc.list = {}
       THEN /\ pc' = "add_cert"
            /\ UNCHANGED <<fs, loc>>
       ELSE \E r \in loc.list :
            /\ loc' = [loc EXCEPT !.list = @ \ {r}]
            /\ pc' = pc
            /\ fs' = fs
    /\ UNCHANGED <<conf, cred, now, run, env, snap, hist, raced>>

RemoveOldCertsNode ==
    /\ pc = "rm_loop"
    /\ IF loc.list = {}
       THEN /\ pc' = "add_cert"
            /\ UNCHANGED <<fs, loc>>
       ELSE \E r \in loc.list :
            /\ loc' = [loc EXCEPT !.list = @ \ {r}]
            /\ pc' = pc
            /\ fs' = IF Matches(r)
                     THEN [fs EXCEPT
                            ![loc.new_dbdir_name][Cert8].content = @ \ {r},
                            ![loc.new_dbdir_name][Cert8].mtime = Stamp(now)]
                     ELSE fs
    /\ UNCHANGED <<conf, cred, now, run, env, snap, hist, raced>>

(* Faulty variant: the certificate is imported into the old generation.   *)
AddNewCert_inOld ==
    /\ pc = "add_cert"
    /\ fs' = [fs EXCEPT
                ![loc.old_dbdir_name][Cert8].content =
                    @ \cup {Rec(env.hostname, loc.cert)},
                ![loc.old_dbdir_name][Cert8].mtime = Stamp(now)]
    /\ pc' = "nss_shutdown"
    /\ UNCHANGED <<conf, loc, cred, now, run, env, snap, hist, raced>>

(* add_new_cert: PK11_ImportCert under the hostname as nickname.           *)
AddNewCert ==
    /\ pc = "add_cert"
    /\ fs' = [fs EXCEPT
                ![loc.new_dbdir_name][Cert8].content =
                    @ \cup {Rec(env.hostname, loc.cert)},
                ![loc.new_dbdir_name][Cert8].mtime = Stamp(now)]
    /\ pc' = "nss_shutdown"
    /\ UNCHANGED <<conf, loc, cred, now, run, env, snap, hist, raced>>

ShutdownLibnss ==
    /\ pc = "nss_shutdown"
    /\ loc' = [loc EXCEPT !.slot = FALSE, !.cert = 0]
    /\ pc' = "priv_restore"
    /\ UNCHANGED <<fs, conf, cred, now, run, env, snap, hist, raced>>

----------------------------------------------------------------------------
(* copy_nssdb_dir: replicate the whole tree of the old generation *)

(* Faulty variant: the timestamps are never copied.                       *)
CopyMetadata_noTimes(e, srcst, copy_timestamps) ==
    [e EXCEPT !.uid = srcst.uid,
              !.gid = srcst.gid,
              !.mode = IF srcst.type = "lnk" THEN @
                       ELSE srcst.mode % (MODE_MASK + 1)]

(* copy_metadata: fchownat, fchmod unless a link, utimensat if asked.     *)
CopyMetadata(e, srcst, copy_timestamps) ==
    [e EXCEPT !.uid = srcst.uid,
              !.gid = srcst.gid,
              !.mode = IF srcst.type = "lnk" THEN @
                       ELSE srcst.mode % (MODE_MASK + 1),
              !.atime = IF copy_timestamps THEN srcst.atime ELSE @,
              !.mtime = IF copy_timestamps THEN srcst.mtime ELSE @]

(* readdir of a directory: the names in it, "." and ".." left out.        *)
Readdir(tree, dir) == {Last(q) : q \in Children(tree, dir)}

Frame(dir, tree, st) == [subdir |-> dir, todo |-> Readdir(tree, dir),
                         srcst |-> st]

Top == loc.stack[Len(loc.stack)]
Pop == SubSeq(loc.stack, 1, Len(loc.stack) - 1)
(* Faulty variant: the entry is not struck off; readdir yields it again.  *)
Taken_again(nm) == loc.stack

Taken(nm) == [loc.stack EXCEPT ![Len(loc.stack)].todo = @ \ {nm}]

(* Faulty variant: main goes on to the swap without copy_nssdb_dir.       *)
CopyNssdbDirOpen_skipped ==
    /\ pc = "tree_open"
    /\ pc' = "swap_symlink"
    /\ UNCHANGED <<fs, conf, loc, cred, now, run, env, snap, hist, raced>>

(* copy_dir_contents(srcdir, destdir, ""): the stream of the root opens.  *)
CopyNssdbDirOpen ==
    /\ pc = "tree_open"
    /\ loc' = [loc EXCEPT !.stack = <<Frame(Root, Old, Stat(Old[Root]))>>,
                         !.fds = @ + 1]
    /\ fs' = [fs EXCEPT ![loc.old_dbdir_name] = ReadTouch(@, Root, Stamp(now))]
    /\ pc' = "tree_walk"
    /\ UNCHANGED <<conf, cred, now, run, env, snap, hist, raced>>

(* openat(O_WRONLY | O_NOFOLLOW) of an existing name: a directory gives  *)
(* EISDIR, a symbolic link ELOOP, a socket ENXIO; a regular file, a       *)
(* device and a FIFO that has a reader are opened.                         *)
OpensForWrite(e) == e.type \in {"reg", "chr", "fifo"}

(* copy_file: an absent destination is created, filled and given the      *)
(* source's metadata and timestamps; an existing one that can be opened   *)
(* only gets ownership and mode.                                           *)
CopyFile(path, srcst) ==
    IF New[path].type = "none"
    THEN /\ fs' = [fs EXCEPT
                     ![loc.new_dbdir_name] =
                        LET made == CreateIn(@, path, NewReg(MODE_FILE),
                                             Stamp(now))
                            full == Memcpy(made, path, srcst, Old[path])
                        IN [full EXCEPT
                              ![path] = CopyMetadata(@, srcst, TRUE)],
                     ![loc.old_dbdir_name] =
                        IF srcst.size = 0 THEN @
                        ELSE ReadTouch(@, path, Stamp(now))]
         /\ pc' = pc
    ELSE IF OpensForWrite(New[path])
    THEN /\ fs' = [fs EXCEPT ![loc.new_dbdir_name][path] =
                                CopyMetadata(@, srcst, FALSE)]
         /\ pc' = pc
    ELSE /\ pc' = "fatal"
         /\ fs' = fs

(* create_symlink: symlinkat fails on an existing name; the target is     *)
(* read back and compared.                                                 *)
NewLnk(tgt) == [NewDir(511) EXCEPT !.type = "lnk", !.target = tgt]

(* copy_link *)
CopyLink(path, srcst) ==
    IF srcst.size <= 0 \/ New[path].type # "none"
    THEN /\ pc' = "fatal"
         /\ fs' = fs
    ELSE /\ fs' = [fs EXCEPT
                     ![loc.new_dbdir_name] =
                        LET made == CreateIn(@, path, NewLnk(Old[path].target),
                                             Stamp(now))
                        IN [made EXCEPT
                              ![path] = CopyMetadata(@, srcst, TRUE)],
                     ![loc.old_dbdir_name] = ReadTouch(@, path, Stamp(now))]
         /\ pc' = pc

(* copy_subdir up to the recursive call: mkdirat(0700).                    *)
CopySubdirEnter(path) ==
    IF New[path].type # "none"
    THEN /\ pc' = "fatal"
         /\ fs' = fs
    ELSE /\ fs' = [fs EXCEPT
                     ![loc.new_dbdir_name] =
                        CreateIn(@, path, NewDir(MODE_SUBDIR), Stamp(now)),
                     ![loc.old_dbdir_name] = ReadTouch(@, path, Stamp(now))]
         /\ pc' = pc

(* Faulty variant: an entry of another type is passed over.               *)
CopyDirEntry_skipOther ==
    /\ pc = "tree_walk"
    /\ Top.todo # {}
    /\ \E nm \in Top.todo :
         LET path == Append(Top.subdir, nm)
             st == Stat(Old[path])
         IN /\ CASE st.type = "reg" -> CopyFile(path, st)
                 [] st.type = "lnk" -> CopyLink(path, st)
                 [] st.type = "dir" -> CopySubdirEnter(path)
                 [] OTHER -> pc' = pc /\ fs' = fs
            /\ loc' = IF pc' = "fatal"
                      THEN [loc EXCEPT !.fds = 0, !.status = EXIT_FAILURE, !.at = pc,
                                       !.stack = <<>>]
                      ELSE IF st.type = "dir"
                      THEN [loc EXCEPT !.stack =
                              Append(Taken(nm), Frame(path, Old, st)),
                                       !.fds = @ + 4]
                      ELSE [loc EXCEPT !.stack = Taken(nm)]
    /\ UNCHANGED <<conf, cred, now, run, env, snap, hist, raced>>

(* One turn of the readdir loop of copy_dir_contents.                      *)
CopyDirEntry ==
    /\ pc = "tree_walk"
    /\ Top.todo # {}
    /\ \E nm \in Top.todo :
         LET path == Append(Top.subdir, nm)
             st == Stat(Old[path])
         IN /\ CASE st.type = "reg" -> CopyFile(path, st)
                 [] st.type = "lnk" -> CopyLink(path, st)
                 [] st.type = "dir" -> CopySubdirEnter(path)
                 [] OTHER -> pc' = "fatal" /\ fs' = fs
            /\ loc' = IF pc' = "fatal"
                      THEN [loc EXCEPT !.fds = 0, !.status = EXIT_FAILURE, !.at = pc,
                                       !.stack = <<>>]
                      ELSE IF st.type = "dir"
                      THEN [loc EXCEPT !.stack =
                              Append(Taken(nm), Frame(path, Old, st)),
                                       !.fds = @ + 4]
                      ELSE [loc EXCEPT !.stack = Taken(nm)]
    /\ UNCHANGED <<conf, cred, now, run, env, snap, hist, raced>>

(* Faulty variant: copy_subdir does not copy the metadata.                *)
CopyDirClose_noMeta ==
    /\ pc = "tree_walk"
    /\ Top.todo = {}
    /\ loc' = [loc EXCEPT !.stack = Pop,
                          !.fds = IF Top.subdir = Root THEN @ - 1 ELSE @ - 4]
    /\ pc' = IF Top.subdir = Root THEN "tree_rootmeta" ELSE pc
    /\ UNCHANGED <<fs, conf, cred, now, run, env, snap, hist, raced>>

(* Faulty variant: copy_subdir does not close its two descriptors.        *)
CopyDirClose_leak ==
    /\ pc = "tree_walk"
    /\ Top.todo = {}
    /\ loc' = [loc EXCEPT !.stack = Pop,
                          !.fds = IF Top.subdir = Root THEN @ - 1 ELSE @ - 2]
    /\ IF Top.subdir = Root
       THEN /\ pc' = "tree_rootmeta"
            /\ fs' = fs
       ELSE /\ pc' = pc
            /\ fs' = [fs EXCEPT ![loc.new_dbdir_name][Top.subdir] =
                                   CopyMetadata(@, Top.srcst, TRUE)]
    /\ UNCHANGED <<conf, cred, now, run, env, snap, hist, raced>>

(* The loop of copy_dir_contents ends: back in copy_subdir, which copies  *)
(* the subdirectory's metadata and timestamps, or back in copy_nssdb_dir. *)
CopyDirClose ==
    /\ pc = "tree_walk"
    /\ Top.todo = {}
    /\ loc' = [loc EXCEPT !.stack = Pop,
                          !.fds = IF Top.subdir = Root THEN @ - 1 ELSE @ - 4]
    /\ IF Top.subdir = Root
       THEN /\ pc' = "tree_rootmeta"
            /\ fs' = fs
       ELSE /\ pc' = pc
            /\ fs' = [fs EXCEPT ![loc.new_dbdir_name][Top.subdir] =
                                   CopyMetadata(@, Top.srcst, TRUE)]
    /\ UNCHANGED <<conf, cred, now, run, env, snap, hist, raced>>

(* Faulty variant: the root's timestamps are copied too.                  *)
CopyNssdbDirMeta_withTimes ==
    /\ pc = "tree_rootmeta"
    /\ fs' = [fs EXCEPT ![loc.new_dbdir_name][Root] =
                          CopyMetadata(@, Stat(Old[Root]), TRUE)]
    /\ pc' = "swap_symlink"
    /\ UNCHANGED <<conf, loc, cred, now, run, env, snap, hist, raced>>

(* copy_nssdb_dir after the walk: fstat of the old root, copy_metadata    *)
(* without timestamps.                                                     *)
CopyNssdbDirMeta ==
    /\ pc = "tree_rootmeta"
    /\ fs' = [fs EXCEPT ![loc.new_dbdir_name][Root] =
                          CopyMetadata(@, Stat(Old[Root]), FALSE)]
    /\ pc' = "swap_symlink"
    /\ UNCHANGED <<conf, loc, cred, now, run, env, snap, hist, raced>>

----------------------------------------------------------------------------
(* update_nssdb_symlink: alias.new is made, read back, owned, and renamed *)
(* to alias                                                                *)

(* Faulty variant: an existing alias.new is replaced.                     *)
UpdateNssdbSymlinkCreate_replace ==
    /\ pc = "swap_symlink"
    /\ conf' = [conf EXCEPT !.aliasnew =
                   [type |-> "lnk", target |-> loc.new_dbdir_name,
                    uid |-> cred.uid, gid |-> cred.gid]]
    /\ pc' = "swap_readback"
    /\ UNCHANGED <<fs, loc, cred, now, run, env, snap, hist, raced>>

(* create_symlink up to symlinkat, which fails on an existing name.        *)
UpdateNssdbSymlinkCreate ==
    /\ pc = "swap_symlink"
    /\ IF conf.aliasnew.type # "none" \/ Len(loc.new_dbdir_name) <= 0
       THEN Die
       ELSE /\ conf' = [conf EXCEPT !.aliasnew =
                           [type |-> "lnk", target |-> loc.new_dbdir_name,
                            uid |-> cred.uid, gid |-> cred.gid]]
            /\ pc' = "swap_readback"
            /\ UNCHANGED <<fs, loc, cred, now, run, env, snap, hist, raced>>

(* create_symlink after symlinkat: the link is opened without following,  *)
(* its size is compared with strlen(target), its target is read back and  *)
(* compared with memcmp.                                                   *)
UpdateNssdbSymlinkReadback ==
    /\ pc = "swap_readback"
    /\ LET l == conf.aliasnew IN
       IF \/ l.type # "lnk"
          \/ Len(l.target) <= 0
          \/ Len(l.target) # Len(loc.new_dbdir_name)
          \/ l.target # loc.new_dbdir_name
       THEN Die
       ELSE /\ pc' = "swap_chown"
            /\ loc' = [loc EXCEPT !.fds = @ + 1]
            /\ UNCHANGED <<fs, conf, cred, now, run, env, snap, hist, raced>>

(* Faulty variant: alias.new keeps the owner it was created with.         *)
UpdateNssdbSymlinkChown_skipped ==
    /\ pc = "swap_chown"
    /\ loc' = [loc EXCEPT !.fds = @ - 1]
    /\ pc' = "swap_rename"
    /\ UNCHANGED <<fs, conf, cred, now, run, env, snap, hist, raced>>

(* Faulty variant: the old generation is deleted before the rename.       *)
UpdateNssdbSymlinkChown_thenReap ==
    /\ pc = "swap_chown"
    /\ conf' = [conf EXCEPT !.aliasnew.uid = loc.linkst.uid,
                            !.aliasnew.gid = loc.linkst.gid]
    /\ loc' = [loc EXCEPT !.fds = @ - 1]
    /\ pc' = "reap_open"
    /\ UNCHANGED <<fs, cred, now, run, env, snap, hist, raced>>

UpdateNssdbSymlinkChown ==
    /\ pc = "swap_chown"
    /\ conf' = [conf EXCEPT !.aliasnew.uid = loc.linkst.uid,
                            !.aliasnew.gid = loc.linkst.gid]
    /\ loc' = [loc EXCEPT !.fds = @ - 1]
    /\ pc' = "swap_rename"
    /\ UNCHANGED <<fs, cred, now, run, env, snap, hist, raced>>

(* Faulty variant: alias.new is copied to alias and stays behind.         *)
UpdateNssdbSymlinkRename_copied ==
    /\ pc = "swap_rename"
    /\ conf' = [conf EXCEPT !.alias = conf.aliasnew]
    /\ pc' = "reap_open"
    /\ UNCHANGED <<fs, loc, cred, now, run, env, snap, hist, raced>>

(* Faulty variant: unlink(alias) before the rename, which leaves a moment  *)
(* without an alias.                                                       *)
UpdateNssdbSymlinkRename_unlinkFirst ==
    /\ pc = "swap_rename"
    /\ conf' = [conf EXCEPT !.alias = NoLink]
    /\ pc' = pc
    /\ UNCHANGED <<fs, loc, cred, now, run, env, snap, hist, raced>>

(* renameat(alias.new, alias): one step for every observer.                *)
UpdateNssdbSymlinkRename ==
    /\ pc = "swap_rename"
    /\ conf' = [alias |-> conf.aliasnew, aliasnew |-> NoLink]
    /\ pc' = "reap_open"
    /\ UNCHANGED <<fs, loc, cred, now, run, env, snap, hist, raced>>

----------------------------------------------------------------------------
(* delete_old_nssdb_dir: remove the tree of the old generation *)

DeleteOldNssdbDirOpen ==
    /\ pc = "reap_open"
    /\ loc' = [loc EXCEPT !.stack = <<Frame(Root, Old, Stat(Old[Root]))>>,
                         !.fds = @ + 1]
    /\ pc' = "reap_walk"
    /\ UNCHANGED <<fs, conf, cred, now, run, env, snap, hist, raced>>

(* Faulty variant: a symbolic link to a generation is followed and the   *)
(* generation emptied.                                                     *)
DeleteDirEntry_follow ==
    /\ pc = "reap_walk"
    /\ Top.todo # {}
    /\ \E nm \in Top.todo :
         LET path == Append(Top.subdir, nm)
             st == Stat(Old[path])
         IN IF st.type = "dir"
            THEN /\ loc' = [loc EXCEPT !.stack =
                              Append(Taken(nm), Frame(path, Old, st)),
                                 !.fds = @ + 2]
                 /\ fs' = fs
            ELSE /\ loc' = [loc EXCEPT !.stack = Taken(nm)]
                 /\ fs' = [n \in DOMAIN fs |->
                             IF n = loc.old_dbdir_name
                             THEN RemoveFrom(fs[n], path, Stamp(now))
                             ELSE IF st.type = "lnk"
                                     /\ Old[path].target = UpTo(n)
                             THEN EmptyTree
                             ELSE fs[n]]
    /\ pc' = pc
    /\ UNCHANGED <<conf, cred, now, run, env, snap, hist, raced>>

(* One turn of the readdir loop of delete_dir_contents: a directory is    *)
(* entered, anything else is unlinked.                                     *)
DeleteDirEntry ==
    /\ pc = "reap_walk"
    /\ Top.todo # {}
    /\ \E nm \in Top.todo :
         LET path == Append(Top.subdir, nm)
             st == Stat(Old[path])
         IN IF st.type = "dir"
            THEN /\ loc' = [loc EXCEPT !.stack =
                              Append(Taken(nm), Frame(path, Old, st)),
                                 !.fds = @ + 2]
                 /\ fs' = fs
            ELSE /\ loc' = [loc EXCEPT !.stack = Taken(nm)]
                 /\ fs' = [fs EXCEPT ![loc.old_dbdir_name] =
                                        RemoveFrom(@, path, Stamp(now))]
    /\ pc' = pc
    /\ UNCHANGED <<conf, cred, now, run, env, snap, hist, raced>>

(* The loop ends: the caller removes the emptied subdirectory with        *)
(* unlinkat(AT_REMOVEDIR), or delete_old_nssdb_dir goes on.                *)
DeleteDirClose ==
    /\ pc = "reap_walk"
    /\ Top.todo = {}
    /\ IF Top.subdir = Root
       THEN /\ pc' = "reap_rmdir"
            /\ loc' = [loc EXCEPT !.stack = Pop, !.fds = @ - 1]
            /\ fs' = fs
       ELSE IF Children(Old, Top.subdir) # {}
       THEN /\ FATAL
            /\ fs' = fs
       ELSE /\ pc' = pc
            /\ loc' = [loc EXCEPT !.stack = Pop, !.fds = @ - 2]
            /\ fs' = [fs EXCEPT ![loc.old_dbdir_name] =
                                   RemoveFrom(@, Top.subdir, Stamp(now))]
    /\ UNCHANGED <<conf, cred, now, run, env, snap, hist, raced>>

(* Faulty variant: the emptied directory itself is not removed.           *)
DeleteOldNssdbDirRmdir_kept ==
    /\ pc = "reap_rmdir"
    /\ pc' = "close"
    /\ UNCHANGED <<fs, conf, loc, cred, now, run, env, snap, hist, raced>>

(* unlinkat(httpd_conf_dirfd, old_dbdir_name, AT_REMOVEDIR)                *)
DeleteOldNssdbDirRmdir ==
    /\ pc = "reap_rmdir"
    /\ IF Children(Old, Root) # {}
       THEN Die
       ELSE /\ fs' = [fs EXCEPT ![loc.old_dbdir_name] =
                                   RemoveFrom(@, Root, Stamp(now))]
            /\ pc' = "close"
            /\ UNCHANGED <<conf, loc, cred, now, run, env, snap, hist, raced>>

----------------------------------------------------------------------------
(* main: the three directory handles are closed and main returns *)

MainReturn ==
    /\ pc = "close"
    /\ pc' = "done"
    /\ loc' = [loc EXCEPT !.status = EXIT_SUCCESS, !.fds = @ - 3]
    /\ UNCHANGED <<fs, conf, cred, now, run, env, snap, hist, raced>>

(* The program is started again after a run that succeeded.               *)
NextRun ==
    /\ pc = "done"
    /\ run < MaxRuns
    /\ run' = run + 1
    /\ pc' = "resolve"
    /\ loc' = NoLoc
    /\ cred' = InitCred
    /\ \E c \in CertFiles \ {0} : env' = [env EXCEPT !.certfile = c]
    /\ snap' = fs[conf.alias.target]
    /\ hist' = Append(hist, [old |-> loc.old_dbdir_name,
                             new |-> loc.new_dbdir_name,
                             now |-> loc.now,
                             status |-> loc.status])
    /\ raced' = FALSE
    /\ UNCHANGED <<fs, conf, now>>

(* Another process rewrites the store file that is being copied.          *)
ExternalWrite ==
    /\ pc \in {"sf_copy", "sf_check"}
    /\ ~raced
    /\ LET p == <<names[loc.name]>> IN
       \E c \in {{}, {7}, {7, 8}} :
          /\ c # Old[p].content
          /\ fs' = [fs EXCEPT ![loc.old_dbdir_name][p].content = c,
                              ![loc.old_dbdir_name][p].mtime = Stamp(now)]
          /\ snap' = [snap EXCEPT ![p].content = c, ![p].mtime = Stamp(now)]
    /\ raced' = TRUE
    /\ UNCHANGED <<conf, pc, loc, cred, now, run, env, hist>>

(* The program is started again after a run that died in the Alias        *)
(* Swapper.                                                                *)
Rerun ==
    /\ pc = "fatal"
    /\ loc.at \in {"swap_symlink", "swap_readback", "swap_chown", "swap_rename"}
    /\ run < MaxRuns
    /\ run' = run + 1
    /\ pc' = "resolve"
    /\ loc' = NoLoc
    /\ cred' = InitCred
    /\ snap' = fs[conf.alias.target]
    /\ hist' = Append(hist, [old |-> loc.old_dbdir_name,
                             new |-> loc.new_dbdir_name,
                             now |-> loc.now,
                             status |-> loc.status])
    /\ raced' = FALSE
    /\ UNCHANGED <<fs, conf, now, env>>

(* Another process makes an entry in the new generation: under the name   *)
(* of a store file that is still to be copied, or under the name of a     *)
(* regular file of the old generation before the tree is walked.           *)
Intruded(ty) == [type |-> ty, content |-> {}, target |-> <<>>,
                 uid |-> 0, gid |-> 0, mode |-> 420,
                 atime |-> Stamp(now), mtime |-> Stamp(now)]

ExternalCreate ==
    /\ \/ /\ pc = "sf_open"
          /\ \E i \in loc.name..Len(names), ty \in {"reg", "lnk"} :
                /\ New[<<names[i]>>].type = "none"
                /\ fs' = [fs EXCEPT ![loc.new_dbdir_name] =
                            CreateIn(@, <<names[i]>>, Intruded(ty), Stamp(now))]
       \/ /\ pc = "tree_open"
          /\ \E ty \in {"reg", "dir", "lnk", "chr"} :
                /\ Old[<<"f">>].type = "reg"
                /\ New[<<"f">>].type = "none"
                /\ fs' = [fs EXCEPT ![loc.new_dbdir_name] =
                            CreateIn(@, <<"f">>, Intruded(ty), Stamp(now))]
    /\ UNCHANGED <<conf, pc, loc, cred, now, run, env, snap, hist, raced>>

(* Another process replaces alias.new before it is read back.             *)
ExternalRelink ==
    /\ pc = "swap_readback"
    /\ conf.aliasnew.target = loc.new_dbdir_name
    /\ \E t \in {loc.old_dbdir_name, Dot} :
          conf' = [conf EXCEPT !.aliasnew.target = t]
    /\ UNCHANGED <<fs, pc, loc, cred, now, run, env, snap, hist, raced>>

----------------------------------------------------------------------------

Next ==
    \/ Tick
    \/ EnvironmentError
    \/ OldNssdbDir
    \/ NewNssdbDirMkdir
    \/ NewNssdbDirChown
    \/ CopyNssdbFilesOpen
    \/ CopyNssdbFilesCopy
    \/ CopyNssdbFilesCheck
    \/ CopyNssdbFilesMeta
    \/ MainDropPrivilege
    \/ InitLibnss
    \/ NewCertificate
    \/ RemoveOldCertsList
    \/ RemoveOldCertsNode
    \/ AddNewCert
    \/ ShutdownLibnss
    \/ MainRestorePrivilege
    \/ CopyNssdbDirOpen
    \/ CopyDirEntry
    \/ CopyDirClose
    \/ CopyNssdbDirMeta
    \/ UpdateNssdbSymlinkCreate
    \/ UpdateNssdbSymlinkReadback
    \/ UpdateNssdbSymlinkChown
    \/ UpdateNssdbSymlinkRename
    \/ DeleteOldNssdbDirOpen
    \/ DeleteDirEntry
    \/ DeleteDirClose
    \/ DeleteOldNssdbDirRmdir
    \/ MainReturn
    \/ NextRun

Spec == Init /\ [][Next]_vars

(* The same program beside a process that writes the store files.         *)
NextRace == Next \/ ExternalWrite

SpecRace == Init /\ [][NextRace]_vars

(* The program on the other inputs.                                       *)
SpecInputs == InitInputs /\ [][Next]_vars

(* The same beside a process that makes entries in /etc/httpd.            *)
NextIntruder == Next \/ ExternalCreate \/ ExternalRelink

SpecIntruder == InitInputs /\ [][NextIntruder]_vars

(* The program in a configuration directory where an alias.new may have   *)
(* been left behind, and started again after a failed swap.                *)
NextRetry == Next \/ Rerun

SpecRetry == InitRetry /\ [][NextRetry]_vars

(* The program on generations that hold symbolic links, and the same     *)
(* with the process scheduled for as long as a walk can go on.  Nothing   *)
(* is assumed about failures: a walk may end in one.                       *)
SpecLinks == InitLinks /\ [][Next]_vars

FairLinks ==
    /\ SpecLinks
    /\ WF_vars(CopyNssdbDirOpen \/ CopyDirEntry \/ CopyDirClose)
    /\ WF_vars(DeleteOldNssdbDirOpen \/ DeleteDirEntry \/ DeleteDirClose)

(* The name computation of the Allocator alone, over times from the year  *)
(* 999 to the year 10000.                                                  *)
NextNamer == NamerApply \/ NamerAgain

SpecNamer == InitNamer /\ [][NextNamer]_vars

----------------------------------------------------------------------------
(* Vocabulary of the properties *)

HasOld == loc.old_dbdir_name # <<>>
HasNew == loc.new_dbdir_name # <<>>

(* The step the process is in, or was in when it died.                    *)
Where == IF pc = "fatal" THEN loc.at ELSE pc

ResolverSteps == {"resolve"}
AllocatorSteps == {"alloc", "alloc_chown"}
StoreFileSteps == {"sf_open", "sf_copy", "sf_check", "sf_meta"}
SwitchSteps == {"priv_drop", "priv_restore"}
UpdaterSteps == {"nss_init", "new_cert", "rm_list", "rm_loop", "add_cert",
                 "nss_shutdown"}
ReplicatorSteps == {"tree_open", "tree_walk", "tree_rootmeta"}
SwapperSteps == {"swap_symlink", "swap_readback", "swap_chown", "swap_rename"}
ReaperSteps == {"reap_open", "reap_walk", "reap_rmdir"}
EndSteps == {"close", "done"}

(* The generation the alias named when the run started.                   *)
OldGen == IF HasOld THEN fs[loc.old_dbdir_name] ELSE fs[conf.alias.target]

(* The new generation exists as a directory this run made.                *)
NewMade == /\ HasNew
           /\ Where # "alloc"
           /\ fs[loc.new_dbdir_name][Root].type = "dir"

AliasOnNew == HasNew /\ Where # "alloc"
                /\ conf.alias.target = loc.new_dbdir_name

StoreNames == {<<names[i]>> : i \in 1..Len(names)}

SameButAtime(e1, e2) == [e1 EXCEPT !.atime = 0] = [e2 EXCEPT !.atime = 0]

(* Nothing of the old generation has been changed or removed.             *)
OldIntact == \A p \in Paths : SameButAtime(OldGen[p], snap[p])

(* What the store must hold after the update.                             *)
ExpectedStore ==
    {r \in snap[Cert8].content : Nick(r) # env.hostname}
        \cup {Rec(env.hostname, env.certfile)}

StoreFilesCopied ==
    \A p \in StoreNames \ {Cert8} :
        New[p].type = "reg" /\ New[p].content = snap[p].content

StoreUpdated ==
    /\ New[Cert8].type = "reg"
    /\ New[Cert8].content = ExpectedStore
    /\ ~loc.slot

IdentityRestored == cred = loc.saved /\ cred = InitCred

(* Entry p of the new generation replicates entry p of the old one.       *)
Replicated(p) ==
    /\ New[p].type = snap[p].type
    /\ New[p].uid = snap[p].uid
    /\ New[p].gid = snap[p].gid
    /\ snap[p].type = "lnk" => New[p].target = snap[p].target
    /\ snap[p].type \in {"reg", "dir"} => New[p].mode = snap[p].mode
    /\ (snap[p].type = "reg" /\ p \notin StoreNames)
            => New[p].content = snap[p].content
    /\ (snap[p].type # "none" /\ p \notin StoreNames)
            => /\ New[p].atime = snap[p].atime
               /\ New[p].mtime = snap[p].mtime

TreeReplicated == \A p \in Paths \ {Root} : Replicated(p)

RootMetaCopied ==
    /\ New[Root].uid = snap[Root].uid
    /\ New[Root].gid = snap[Root].gid
    /\ New[Root].mode = snap[Root].mode

NewComplete ==
    /\ StoreFilesCopied
    /\ StoreUpdated
    /\ IdentityRestored
    /\ TreeReplicated
    /\ RootMetaCopied

----------------------------------------------------------------------------
(* C1 - Atomicity of the swap.  Whenever somebody resolves the alias, it  *)
(* is there, it is a symbolic link, the directory it names exists, its    *)
(* target is the old or the new generation name; and the only change the  *)
(* alias ever undergoes is the single step from the old name to the new   *)
(* one (so the old name is never read again after the new one).           *)
AliasResolves ==
    /\ conf.alias.type = "lnk"
    /\ IsDir(conf.alias.target)
    /\ HasOld => conf.alias.target \in {loc.old_dbdir_name, loc.new_dbdir_name}

AliasFlipsOnce ==
    conf'.alias # conf.alias =>
        /\ conf.alias.target = loc.old_dbdir_name
        /\ conf'.alias.target = loc.new_dbdir_name
        /\ loc.new_dbdir_name # loc.old_dbdir_name
        /\ loc' = loc

C1_AtomicSwap == [] AliasResolves /\ [][AliasFlipsOnce]_vars

(* The alias already names the new generation while the old one is being  *)
(* deleted: a reader gets the new name, and its directory is there.        *)
C1_Witness ==
    /\ pc = "reap_walk"
    /\ conf.alias.target = loc.new_dbdir_name
    /\ Old[Root].type = "dir"
    /\ \E p \in Paths : snap[p].type # "none" /\ Old[p].type = "none"

(* C2 - No partial state is ever live.  In every state in which the alias *)
(* references the new generation, the store files have been copied, the   *)
(* store has been updated and released, the effective identity is the     *)
(* original one again, and the whole tree and the root's ownership and    *)
(* mode have been replicated.                                              *)
C2_NoPartialLive == AliasOnNew => NewComplete

C2_Witness ==
    /\ AliasOnNew
    /\ pc = "reap_open"
    /\ snap[<<"d", "e", "h">>].type = "reg"
    /\ New[Cert8].content # snap[Cert8].content

(* C3 - Cleanup ordering.  An entry of the old generation is missing only *)
(* in states where the alias names the (complete) new generation; before  *)
(* the Reaper starts the old generation is intact; and when the run has   *)
(* succeeded the old generation is gone altogether.                        *)
C3_CleanupOrdering ==
    /\ ~OldIntact => (AliasOnNew /\ NewComplete
                        /\ conf.alias.target # loc.old_dbdir_name)
    /\ Where \notin (ReaperSteps \cup EndSteps) => OldIntact
    /\ Where \in (ReaperSteps \cup EndSteps) => (AliasOnNew /\ NewComplete)
    /\ pc = "done" => \A p \in Paths : Old[p].type = "none"

(* A crash in the middle of the Reaper.                                    *)
C3_Witness ==
    /\ pc = "fatal"
    /\ loc.at = "reap_walk"
    /\ Old[Root].type = "dir"
    /\ Old[<<"d">>].type = "dir"
    /\ Old[<<"d", "g">>].type = "none"

(* C4 - Completeness of replication.  After a successful run every entry  *)
(* of the old generation (as it was at the start) has an entry of the     *)
(* same path and type in the new generation, with the same link target,   *)
(* owner, group, permission bits, and, except for the three store files,  *)
(* the same access and modification times; every regular file other than  *)
(* the three store files has the same content (the store files hold the   *)
(* updated store).                                                         *)
C4_Completeness == pc = "done" => TreeReplicated

C4_Witness ==
    /\ pc = "done"
    /\ env.atime
    /\ snap[<<"d", "e", "h">>].type = "reg"
    /\ snap[<<"l">>].type = "lnk"
    /\ New[Cert8].content # snap[Cert8].content

(* C4 as first stated: the content of every regular file, the store       *)
(* files included, is identical after a successful run.                    *)
C4_AllContentIdentical ==
    pc = "done" =>
        /\ TreeReplicated
        /\ \A p \in Paths \ {Root} :
              snap[p].type = "reg" => New[p].content = snap[p].content

(* C5 - Store correctness.  After a successful run the store of the new   *)
(* generation holds the records of the old store at the start of the run  *)
(* without those whose nickname is the hostname, plus exactly one record  *)
(* with that nickname, which is the input certificate; records with other *)
(* nicknames are unchanged.                                                *)
C5_StoreCorrect ==
    pc = "done" =>
        LET store == New[Cert8].content IN
        /\ store = ExpectedStore
        /\ {r \in store : Nick(r) = env.hostname}
              = {Rec(env.hostname, env.certfile)}
        /\ {r \in store : Nick(r) # env.hostname}
              = {r \in snap[Cert8].content : Nick(r) # env.hostname}

(* Several records of the hostname, none of them the new certificate.     *)
C5_Witness ==
    /\ pc = "done"
    /\ Cardinality({r \in snap[Cert8].content : Nick(r) = env.hostname}) > 1
    /\ Rec(env.hostname, env.certfile) \notin snap[Cert8].content
    /\ \E r \in snap[Cert8].content : Nick(r) # env.hostname

(* C6 - Race detection.  If another process changes a store file between  *)
(* the start and the end of its copy, whatever the file's length, the run *)
(* ends fatally in the Store File Replicator: it never gets to the        *)
(* privilege switch or the store, the alias still names the old           *)
(* generation, and the run has changed nothing in the old generation.     *)
C6_RaceDetected ==
    raced =>
        /\ pc \in {"sf_copy", "sf_check", "fatal"}
        /\ pc = "fatal" => loc.at \in StoreFileSteps
        /\ conf.alias.target = loc.old_dbdir_name
        /\ OldIntact

(* C7 - Failure policy.  A run that ends on a fatal error exits with a    *)
(* failure status, takes no further step, and the failing step itself     *)
(* changes nothing on disk.  If the error is raised after the new         *)
(* directory was made and before the rename (Allocator's chown, Store     *)
(* File Replicator, Privilege Switcher, Store Updater, Tree Replicator,   *)
(* Alias Swapper), the alias still names the old generation, the old      *)
(* generation is intact and the new directory is there as an orphan.  If  *)
(* it is raised in the Alias Resolver or before the directory is made,    *)
(* the alias and the old generation are as they were and no other         *)
(* generation exists.  If it is raised in the Reaper or in the final      *)
(* closes, the alias names the complete new generation.                    *)
UnswappedSteps ==
    {"alloc_chown"} \cup StoreFileSteps \cup SwitchSteps \cup UpdaterSteps
        \cup ReplicatorSteps \cup SwapperSteps

FailureLeaves ==
    pc = "fatal" =>
        /\ loc.status = EXIT_FAILURE
        /\ Where \in ResolverSteps \cup {"alloc"} =>
              /\ conf.alias.type = "lnk"
              /\ HasOld => conf.alias.target = loc.old_dbdir_name
              /\ OldIntact
              /\ {n \in GenNames : Exists(n)} = {conf.alias.target}
        /\ Where \in UnswappedSteps =>
              /\ conf.alias.target = loc.old_dbdir_name
              /\ loc.new_dbdir_name # loc.old_dbdir_name
              /\ OldIntact
              /\ NewMade
        /\ Where \in ReaperSteps \cup {"close"} =>
              /\ AliasOnNew
              /\ NewMade
              /\ NewComplete

FailureStep ==
    /\ pc # "fatal"
    /\ pc' = "fatal" => (fs' = fs /\ conf' = conf)

C7_FailurePolicy == [] FailureLeaves /\ [][FailureStep]_vars

(* The rename failed: alias.new is left behind, nothing is swapped.        *)
C7_Witness ==
    /\ pc = "fatal"
    /\ loc.at = "swap_rename"
    /\ conf.aliasnew.type = "lnk"
    /\ conf.alias.target = loc.old_dbdir_name
    /\ NewMade

(* C7 as first stated: after a fatal error in any step the alias names    *)
(* the old generation, the old generation is complete and the new         *)
(* generation directory is present.                                        *)
C7_AlwaysUnswapped ==
    pc = "fatal" =>
        /\ HasOld => conf.alias.target = loc.old_dbdir_name
        /\ OldIntact
        /\ NewMade

(* C8 - Two runs in succession.  The second run takes the first run's new *)
(* generation as its old one.  If it names its directory in a later       *)
(* second than the first run did, the name differs from the first run's   *)
(* and the directory is made; when it succeeds, the first run's           *)
(* generation has been reaped, exactly one generation directory remains,  *)
(* the alias names it and its store holds the new certificate.  If it     *)
(* names its directory in the same second, the name is the first run's    *)
(* and the run ends fatally in the Allocator with everything unchanged.   *)
Prev == hist[Len(hist)]

C8_TwoRuns ==
    Len(hist) > 0 =>
        /\ Prev.status = EXIT_SUCCESS
        /\ Prev.new # Prev.old
        /\ conf.alias.target # Prev.old
        /\ HasOld => loc.old_dbdir_name = Prev.new
        /\ (HasNew /\ loc.now # Prev.now) =>
              /\ loc.new_dbdir_name # Prev.new
              /\ NewMade
        /\ (HasNew /\ loc.now = Prev.now) =>
              /\ loc.new_dbdir_name = Prev.new
              /\ pc = "fatal"
              /\ loc.at = "alloc"
              /\ conf.alias.target = Prev.new
              /\ OldIntact
        /\ pc = "done" =>
              /\ {n \in GenNames : Exists(n)} = {loc.new_dbdir_name}
              /\ conf.alias.target = loc.new_dbdir_name
              /\ ~Exists(Prev.new)
              /\ Rec(env.hostname, env.certfile) \in New[Cert8].content

C8_Witness ==
    /\ Len(hist) > 0
    /\ pc = "done"
    /\ loc.old_dbdir_name = Prev.new
    /\ loc.new_dbdir_name # Prev.new

(* C8 as first stated: whatever the gap between the two runs, the second  *)
(* run's generation name differs from the first run's.                     *)
C8_AlwaysDistinctNames ==
    (Len(hist) > 0 /\ HasNew) => loc.new_dbdir_name # Prev.new

(* C9 - Final state of a successful run.  The alias is a symbolic link to *)
(* the new generation's name, alias.new is gone, the old generation       *)
(* directory and every entry under it are gone, the new generation        *)
(* directory is there, and the exit status is success.                     *)
C9_FinalState ==
    pc = "done" =>
        /\ conf.alias.type = "lnk"
        /\ conf.alias.target = loc.new_dbdir_name
        /\ conf.aliasnew.type = "none"
        /\ loc.new_dbdir_name # loc.old_dbdir_name
        /\ \A p \in Paths : Old[p].type = "none"
        /\ New[Root].type = "dir"
        /\ loc.status = EXIT_SUCCESS

C9_Witness ==
    /\ pc = "done"
    /\ snap[<<"d", "e", "h">>].type = "reg"
    /\ snap[<<"l">>].type = "lnk"

(* C10 - Privilege scoping.  The store is initialised, read, changed and  *)
(* shut down only under the NSS user and group; the alias is resolved,    *)
(* the directory made, the store files copied, the tree replicated, the   *)
(* alias swapped and the old generation reaped only under the identity    *)
(* the process started with, which is the one saved before the switch; a  *)
(* switch that did not take effect ends the run before the next step.     *)
NssCred == [uid |-> env.nss_uid, gid |-> env.nss_gid]

C10_PrivilegeScoping ==
    /\ pc \in UpdaterSteps \cup {"priv_restore"} =>
          (cred = NssCred /\ loc.saved = InitCred)
    /\ pc \in ResolverSteps \cup AllocatorSteps \cup StoreFileSteps
               \cup {"priv_drop"} => cred = InitCred
    /\ pc \in ReplicatorSteps \cup SwapperSteps \cup ReaperSteps \cup EndSteps =>
          (cred = loc.saved /\ cred = InitCred)

C10_Witness ==
    /\ pc = "add_cert"
    /\ cred = NssCred
    /\ cred # InitCred
    /\ loc.saved = InitCred

(* C11 - The old generation is read-only until reaping.  No step of the   *)
(* Alias Resolver, Allocator, Store File Replicator, Privilege Switcher,  *)
(* Store Updater, Tree Replicator or Alias Swapper creates, removes,      *)
(* rewrites, re-owns or re-modes an entry of the old generation or its    *)
(* root (reading may set access times); the steps of the Store Updater    *)
(* change nothing outside the new generation; so until the Reaper starts  *)
(* the old generation is as it was when the run began.                     *)
OldName == IF HasOld THEN loc.old_dbdir_name ELSE conf.alias.target

PreReaperSteps ==
    ResolverSteps \cup AllocatorSteps \cup StoreFileSteps \cup SwitchSteps
        \cup UpdaterSteps \cup ReplicatorSteps \cup SwapperSteps

OldReadOnlyStep ==
    pc \in PreReaperSteps =>
        /\ \A p \in Paths : SameButAtime(fs'[OldName][p], fs[OldName][p])
        /\ pc \in UpdaterSteps =>
              /\ conf' = conf
              /\ \A n \in DOMAIN fs \ {loc.new_dbdir_name} : fs'[n] = fs[n]

C11_OldReadOnly ==
    /\ [] (Where \in PreReaperSteps => OldIntact)
    /\ [][OldReadOnlyStep]_vars

(* The store of the new generation has lost a record and got the new one; *)
(* the old store still holds what it held.                                 *)
C11_Witness ==
    /\ pc = "nss_shutdown"
    /\ Old[Cert8].content = snap[Cert8].content
    /\ \E r \in snap[Cert8].content : r \notin New[Cert8].content
    /\ Rec(env.hostname, env.certfile) \in New[Cert8].content \ Old[Cert8].content

(* C12 - Metadata given by the Store File Replicator.  When the Store     *)
(* File Replicator has finished and the privilege switch has not yet      *)
(* happened, each of the three store files of the new generation is a     *)
(* regular file with the content of its source, owned by the user of the  *)
(* process, with the NSS group as its group, mode 0660, and the access    *)
(* and modification times its source had when it was opened.               *)
C12_StoreFileMetadata ==
    pc = "priv_drop" =>
        \A p \in StoreNames :
            /\ New[p].type = "reg"
            /\ New[p].content = snap[p].content
            /\ New[p].uid = cred.uid
            /\ New[p].gid = env.nss_gid
            /\ New[p].mode = MODE_DBFILE
            /\ New[p].atime = snap[p].atime
            /\ New[p].mtime = snap[p].mtime

(* The sources have another group and other modes, and reading them has   *)
(* moved their access times.                                               *)
C12_Witness ==
    /\ pc = "priv_drop"
    /\ env.atime
    /\ \A p \in StoreNames : New[p].gid # snap[p].gid
    /\ \E p \in StoreNames : New[p].mode # snap[p].mode
    /\ Old[Cert8].atime # snap[Cert8].atime
    /\ New[Cert8].atime = snap[Cert8].atime

(* C12 as first stated: the group and the mode of each store file are     *)
(* those of its source.                                                    *)
C12_SourceGroupAndMode ==
    pc = "priv_drop" =>
        \A p \in StoreNames :
            /\ New[p].uid = cred.uid
            /\ New[p].gid = snap[p].gid
            /\ New[p].mode = snap[p].mode
            /\ New[p].atime = snap[p].atime
            /\ New[p].mtime = snap[p].mtime

(* C13 - Preconditions of the Store File Replicator.  The store files are *)
(* taken in the order cert8.db, key3.db, secmod.db, and a step of the     *)
(* Replicator touches no other file than the one it is at.  When the      *)
(* source of that file is missing or is not a regular file (a symbolic    *)
(* link included), or when an entry of that name is already in the new    *)
(* generation, the step that opens the file ends the run and changes      *)
(* nothing; so the run gets past the Replicator only if all three sources *)
(* were regular files, and a run that died in the Replicator has not      *)
(* switched identity.                                                      *)
StoreFileStep ==
    (pc \in StoreFileSteps /\ pc' # pc) =>
        LET p == <<names[loc.name]>> IN
        /\ \A q \in Paths \ {p, Root} :
              fs'[loc.new_dbdir_name][q] = fs[loc.new_dbdir_name][q]
        /\ (pc = "sf_open" /\ (Old[p].type # "reg" \/ New[p].type # "none")) =>
              (pc' = "fatal" /\ fs' = fs /\ conf' = conf)
        /\ pc' # "fatal" =>
              /\ loc'.name \in {loc.name, loc.name + 1}
              /\ loc'.name = loc.name + 1 <=> (pc = "sf_meta" /\ pc' = "sf_open")
              /\ pc' = "priv_drop" => loc.name = Len(names)

StoreFilePreconditions ==
    /\ Where \in StoreFileSteps =>
          /\ cred = InitCred
          /\ conf.alias.target = loc.old_dbdir_name
          /\ \A j \in 1..(loc.name - 1) :
                snap[<<names[j]>>].type = "reg" /\ New[<<names[j]>>].type = "reg"
          /\ Where # "sf_open" => snap[<<names[loc.name]>>].type = "reg"
    /\ (HasNew /\ Where \notin ResolverSteps \cup AllocatorSteps
                                \cup StoreFileSteps) =>
          \A p \in StoreNames : snap[p].type = "reg"

C13_StoreFilePreconditions ==
    [] StoreFilePreconditions /\ [][StoreFileStep]_vars

(* cert8.db was copied; an entry key3.db was already there, the run died  *)
(* on it, left it as it was, and never came to secmod.db.                  *)
C13_Witness ==
    /\ pc = "fatal"
    /\ loc.at = "sf_open"
    /\ loc.name = 2
    /\ snap[<<"key3.db">>].type = "reg"
    /\ New[<<"cert8.db">>].type = "reg"
    /\ New[<<"key3.db">>] = [Intruded("lnk") EXCEPT !.atime = New[<<"key3.db">>].atime,
                                                   !.mtime = New[<<"key3.db">>].mtime]
    /\ New[<<"secmod.db">>].type = "none"

(* C14 - The Tree Replicator never clobbers the updated store.  When the  *)
(* walk takes a regular file whose destination is absent, the destination *)
(* is created with the source's content, owner, group, permission bits    *)
(* and times.  When the destination is there, it is a regular file, and   *)
(* the step leaves its content and times alone and gives it the source's  *)
(* owner, group and permission bits; a destination that is there and is   *)
(* not a regular file ends the run, so that the run never goes on to the  *)
(* swap with anything but a regular file where the old generation had     *)
(* one.                                                                    *)
WalkTook ==
    IF pc = "tree_walk" /\ pc' = "tree_walk"
          /\ Len(loc'.stack) = Len(loc.stack)
    THEN {Append(Top.subdir, nm) :
             nm \in Top.todo \ loc'.stack[Len(loc.stack)].todo}
    ELSE {}

TreeFileStep ==
    \A p \in WalkTook :
        Old[p].type = "reg" =>
            LET src == Stat(Old[p])
                was == fs[loc.new_dbdir_name][p]
                is == fs'[loc.new_dbdir_name][p]
            IN /\ is.uid = src.uid
               /\ is.gid = src.gid
               /\ is.mode = src.mode
               /\ IF was.type = "none"
                  THEN /\ is.type = "reg"
                       /\ is.content = Old[p].content
                       /\ is.atime = src.atime
                       /\ is.mtime = src.mtime
                  ELSE /\ was.type = "reg"
                       /\ is.type = "reg"
                       /\ is.content = was.content
                       /\ is.atime = was.atime
                       /\ is.mtime = was.mtime

PastReplicator == HasNew /\ Where \in SwapperSteps \cup ReaperSteps \cup EndSteps

C14_NeverClobbers ==
    /\ [] (PastReplicator =>
              \A p \in Paths : snap[p].type = "reg" => New[p].type = "reg")
    /\ [][TreeFileStep]_vars

(* C15 - Unsupported entry types.  When the old generation holds, at any  *)
(* depth, an entry that is neither a regular file nor a symbolic link nor *)
(* a directory, the walk never takes that entry and goes on: the run does *)
(* not get past the Tree Replicator, no entry is made for it in the new   *)
(* generation, alias.new is never made, the alias keeps naming the old    *)
(* generation and the old generation stays as it was.                      *)
Unsupported(p) == snap[p].type \notin {"none", "reg", "lnk", "dir"}

UnsupportedStep ==
    \A p \in WalkTook : ~Unsupported(p)

UnsupportedStops ==
    (HasOld /\ \E p \in Paths : Unsupported(p)) =>
        /\ Where \in AllocatorSteps \cup StoreFileSteps \cup SwitchSteps
                     \cup UpdaterSteps \cup {"tree_open", "tree_walk"}
        /\ conf.alias.target = loc.old_dbdir_name
        /\ conf.aliasnew.type = "none"
        /\ OldIntact
        /\ NewMade => \A p \in Paths : Unsupported(p) => New[p].type = "none"

C15_Unsupported == [] UnsupportedStops /\ [][UnsupportedStep]_vars

(* The walk went down to d/e, copied everything else, and died there on   *)
(* the socket d/e/h.                                                       *)
C15_Witness ==
    /\ pc = "fatal"
    /\ loc.at = "tree_walk"
    /\ snap[<<"d", "e", "h">>].type = "sock"
    /\ \A p \in Paths \ {<<"d", "e", "h">>} : New[p].type = snap[p].type
    /\ New[<<"d", "e", "h">>].type = "none"
    /\ New[<<"d", "e">>].uid # snap[<<"d", "e">>].uid

(* C16 - Subdirectory metadata is applied last.  For every subdirectory   *)
(* at every depth: the step that gives the destination subdirectory the   *)
(* source's owner, group, permission bits and times is taken when every   *)
(* entry beneath it has been replicated; from then on no step of the run  *)
(* changes the subdirectory or anything beneath it; and after a           *)
(* successful run its times are the source's.                              *)
Below(d, q) == Len(q) > Len(d) /\ SubSeq(q, 1, Len(d)) = d

Subdirs == {d \in Paths \ {Root} : snap[d].type = "dir"}

SubdirMetaSet(tree, d) ==
    /\ tree[d].type = "dir"
    /\ tree[d].uid = snap[d].uid
    /\ tree[d].gid = snap[d].gid
    /\ tree[d].mode = snap[d].mode
    /\ tree[d].atime = snap[d].atime
    /\ tree[d].mtime = snap[d].mtime

SubdirMetaStep ==
    NewMade =>
        \A d \in Subdirs :
            /\ (~SubdirMetaSet(fs[loc.new_dbdir_name], d)
                    /\ SubdirMetaSet(fs'[loc.new_dbdir_name], d)) =>
                  /\ pc = "tree_walk"
                  /\ \A q \in Paths : Below(d, q) => Replicated(q)
            /\ SubdirMetaSet(fs[loc.new_dbdir_name], d) =>
                  \A q \in Paths :
                      (q = d \/ Below(d, q)) =>
                          fs'[loc.new_dbdir_name][q] = fs[loc.new_dbdir_name][q]

SubdirMetaLast ==
    /\ (NewMade /\ pc \in {"tree_open", "tree_walk"}) =>
          \A d \in Subdirs :
              (New[d].type = "dir" /\ ~SubdirMetaSet(New, d)) =>
                  /\ New[d].uid = cred.uid
                  /\ New[d].mode = MODE_SUBDIR
    /\ PastReplicator => \A d \in Subdirs : SubdirMetaSet(New, d)

C16_SubdirMetaLast == [] SubdirMetaLast /\ [][SubdirMetaStep]_vars

(* d/e is finished and has its source's times; d is still open, and the   *)
(* creation of its entries has set its modification time.                  *)
C16_Witness ==
    /\ pc = "tree_walk"
    /\ SubdirMetaSet(New, <<"d", "e">>)
    /\ New[<<"d", "e", "h">>].type = "reg"
    /\ New[<<"d">>].type = "dir"
    /\ ~SubdirMetaSet(New, <<"d">>)
    /\ New[<<"d">>].mtime = Stamp(now)
    /\ New[<<"d", "g">>].type = "none"

(* C17 - Metadata of the generation root.  From its allocation to the end *)
(* of the walk the new root has the process's user, the NSS group and     *)
(* mode 0750.  One step, taken when every entry of the tree has been      *)
(* replicated and while the alias still names the old generation, gives   *)
(* it the old root's owner, group and permission bits and leaves its      *)
(* times alone; so from the swap on the new root has the old root's       *)
(* owner, group and mode, and times that are not the old root's.           *)
RootOwnerMode(tree) ==
    [uid |-> tree[Root].uid, gid |-> tree[Root].gid, mode |-> tree[Root].mode]

RootMetaStep ==
    (NewMade /\ pc \notin AllocatorSteps
        /\ RootOwnerMode(fs'[loc.new_dbdir_name])
               # RootOwnerMode(fs[loc.new_dbdir_name])) =>
        /\ pc = "tree_rootmeta"
        /\ pc' = "swap_symlink"
        /\ TreeReplicated
        /\ conf.alias.target = loc.old_dbdir_name
        /\ conf' = conf
        /\ RootOwnerMode(fs'[loc.new_dbdir_name]) = RootOwnerMode(snap)
        /\ fs'[loc.new_dbdir_name][Root].atime = fs[loc.new_dbdir_name][Root].atime
        /\ fs'[loc.new_dbdir_name][Root].mtime = fs[loc.new_dbdir_name][Root].mtime

RootMeta ==
    /\ (NewMade /\ Where \in StoreFileSteps \cup SwitchSteps \cup UpdaterSteps
                                \cup ReplicatorSteps) =>
          RootOwnerMode(New) = [uid |-> InitCred.uid, gid |-> env.nss_gid,
                                mode |-> MODE_NEWDIR]
    /\ PastReplicator =>
          /\ RootOwnerMode(New) = RootOwnerMode(snap)
          /\ New[Root].atime # snap[Root].atime
          /\ New[Root].mtime # snap[Root].mtime
          /\ TreeReplicated

C17_RootMeta == [] RootMeta /\ [][RootMetaStep]_vars

(* The walk is over and the swap has not begun: the root has changed      *)
(* owner, group and mode, and kept the times its entries gave it.          *)
C17_Witness ==
    /\ pc = "swap_symlink"
    /\ RootOwnerMode(New) = RootOwnerMode(snap)
    /\ RootOwnerMode(snap) # [uid |-> InitCred.uid, gid |-> env.nss_gid,
                              mode |-> MODE_NEWDIR]
    /\ snap[Root].uid # InitCred.uid
    /\ snap[Root].gid # env.nss_gid
    /\ snap[Root].mode # MODE_NEWDIR
    /\ New[Root].mtime = Stamp(now)
    /\ conf.alias.target = loc.old_dbdir_name

(* C18 - Rejections of the Alias Resolver.  No step of the Resolver       *)
(* changes the filesystem.  When the alias is missing, is not a symbolic  *)
(* link, has a target of more than 20 characters, has a target with a     *)
(* slash in it, or names what is not a directory (a symbolic link to one  *)
(* included), the Resolver does not succeed: the run ends there, with no  *)
(* old and no new generation name taken and no directory made.  So a run  *)
(* that got past the Resolver had an alias that passes all five tests.     *)
AliasRejected ==
    LET a == conf.alias IN
    \/ a.type = "none"
    \/ a.type # "lnk"
    \/ Len(a.target) > NSSDB_DIR_PTN_LEN
    \/ \E i \in 1..Len(a.target) : a.target[i] = "/"
    \/ a.target \notin DOMAIN fs
    \/ fs[a.target][Root].type # "dir"

ResolverStep ==
    pc = "resolve" =>
        /\ fs' = fs
        /\ conf' = conf
        /\ AliasRejected =>
              /\ pc' \in {"resolve", "fatal"}
              /\ loc'.old_dbdir_name = <<>>
              /\ loc'.new_dbdir_name = <<>>

ResolverRejects ==
    /\ Where = "resolve" => (~HasOld /\ ~HasNew)
    /\ (pc = "resolve" /\ Len(hist) = 0) =>
          \A n \in GenNames \ {DirNameAt(0)} : ~Exists(n)
    /\ HasOld =>
          /\ loc.linkst.type = "lnk"
          /\ loc.linkst.target = loc.old_dbdir_name
          /\ Len(loc.old_dbdir_name) <= NSSDB_DIR_PTN_LEN
          /\ \A i \in 1..Len(loc.old_dbdir_name) : loc.old_dbdir_name[i] # "/"
          /\ loc.old_dbdir_name \in DOMAIN fs
          /\ snap[Root].type = "dir"

C18_ResolverRejects == [] ResolverRejects /\ [][ResolverStep]_vars

(* The alias names a symbolic link to a directory: it is not followed.    *)
C18_Witness ==
    /\ pc = "fatal"
    /\ loc.at = "resolve"
    /\ conf.alias = AliasTo(LinkName)
    /\ fs[LinkName][Root].type = "lnk"
    /\ IsDir(fs[LinkName][Root].target)
    /\ \A n \in GenNames \ {DirNameAt(0)} : ~Exists(n)

(* C19 - The resolved old generation is a genuine generation name.  When  *)
(* the Alias Resolver has succeeded, the name it took is not empty, is at *)
(* most 20 characters long, is made of letters, digits, "_" and "-"       *)
(* only, and so is neither "." (the configuration directory itself) nor   *)
(* ".." (its parent).                                                      *)
Letters == <<"a", "b", "c", "d", "e", "f", "g", "h", "i", "j", "k", "l", "m",
             "n", "o", "p", "q", "r", "s", "t", "u", "v", "w", "x", "y", "z",
             "A", "B", "C", "D", "E", "F", "G", "H", "I", "J", "K", "L", "M",
             "N", "O", "P", "Q", "R", "S", "T", "U", "V", "W", "X", "Y", "Z">>

NameChars ==
    {Letters[i] : i \in 1..Len(Letters)} \cup {Digit[i] : i \in 1..Len(Digit)}
        \cup {"_", "-"}

C19_GenuineName ==
    HasOld =>
        /\ Len(loc.old_dbdir_name) >= 1
        /\ Len(loc.old_dbdir_name) <= NSSDB_DIR_PTN_LEN
        /\ \A i \in 1..Len(loc.old_dbdir_name) :
              loc.old_dbdir_name[i] \in NameChars
        /\ loc.old_dbdir_name \notin {Dot, DotDot}

(* C20 - The Alias Swapper prepares before it renames.  The alias changes *)
(* only in the rename step, and then alias.new is a symbolic link whose   *)
(* target is the new generation's name and whose owner and group are      *)
(* those read from the alias by the Resolver; the alias becomes that      *)
(* link.  A read-back that finds another target ends the run and changes  *)
(* nothing.  So the alias has in every state the owner and group it had   *)
(* at the start, and a run that died in the Swapper has left the alias on *)
(* the old generation.                                                     *)
Owner(l) == [uid |-> l.uid, gid |-> l.gid]

SwapperStep ==
    /\ Owner(conf'.alias) = Owner(conf.alias)
    /\ conf'.alias # conf.alias =>
          /\ pc = "swap_rename"
          /\ conf.aliasnew.type = "lnk"
          /\ conf.aliasnew.target = loc.new_dbdir_name
          /\ Owner(conf.aliasnew) = Owner(loc.linkst)
          /\ conf'.alias = conf.aliasnew
          /\ conf'.aliasnew.type = "none"
    /\ (pc = "swap_readback" /\ pc' # pc
            /\ conf.aliasnew.target # loc.new_dbdir_name) =>
          (pc' = "fatal" /\ conf' = conf /\ fs' = fs)
    /\ (pc = "swap_readback" /\ pc' = "swap_chown") =>
          conf.aliasnew.target = loc.new_dbdir_name

SwapperPrepared ==
    /\ HasOld => Owner(conf.alias) = Owner(loc.linkst)
    /\ pc \in {"swap_chown", "swap_rename"} =>
          (conf.aliasnew.type = "lnk"
              /\ conf.aliasnew.target = loc.new_dbdir_name)
    /\ pc = "swap_rename" => Owner(conf.aliasnew) = Owner(loc.linkst)
    /\ (pc = "fatal" /\ loc.at \in SwapperSteps) =>
          (conf.alias = loc.linkst /\ conf.alias.target = loc.old_dbdir_name)

C20_SwapperPrepares == [] SwapperPrepared /\ [][SwapperStep]_vars

(* alias.new was found with another target than the one written: the run  *)
(* is over, the alias is what it was.                                      *)
C20_Witness ==
    /\ pc = "fatal"
    /\ loc.at = "swap_readback"
    /\ conf.aliasnew.type = "lnk"
    /\ conf.aliasnew.target # loc.new_dbdir_name
    /\ conf.alias = loc.linkst
    /\ Owner(conf.alias) # Owner(conf.aliasnew)

(* C21 - A leftover alias.new blocks the swap safely.  While an entry     *)
(* alias.new that this run did not make is in the configuration           *)
(* directory, no step replaces or removes it or changes the alias; the    *)
(* step of the Alias Swapper that would make alias.new ends the run and   *)
(* changes nothing; the run gets no further, so the alias keeps naming    *)
(* the old generation, the old generation is not reaped, and the new      *)
(* generation, complete, stays behind.  This is so in every later run as  *)
(* well.                                                                   *)
Leftover ==
    /\ conf.aliasnew.type # "none"
    /\ Where \notin {"swap_readback", "swap_chown", "swap_rename"}

LeftoverStep ==
    Leftover =>
        /\ conf' = conf
        /\ (pc = "swap_symlink" /\ pc' # pc) => (pc' = "fatal" /\ fs' = fs)
        /\ pc' \notin {"swap_readback", "swap_chown", "swap_rename", "done"}
                        \cup ReaperSteps

LeftoverBlocks ==
    Leftover =>
        /\ conf.alias.type = "lnk"
        /\ HasOld => conf.alias.target = loc.old_dbdir_name
        /\ OldIntact
        /\ Where \notin ReaperSteps \cup EndSteps
        /\ Where = "swap_symlink" => (NewMade /\ NewComplete)

C21_LeftoverBlocks == [] LeftoverBlocks /\ [][LeftoverStep]_vars

(* The second run has died on the alias.new that the first run left       *)
(* behind; two complete generations are orphaned.                          *)
C21_Witness ==
    /\ Len(hist) > 0
    /\ Prev.status = EXIT_FAILURE
    /\ pc = "fatal"
    /\ loc.at = "swap_symlink"
    /\ conf.aliasnew = [type |-> "lnk", target |-> Prev.new,
                        uid |-> 0, gid |-> 0]
    /\ conf.alias.target = loc.old_dbdir_name
    /\ loc.old_dbdir_name = Prev.old
    /\ Exists(Prev.new)
    /\ Prev.new # loc.new_dbdir_name
    /\ NewMade
    /\ NewComplete

(* C22 - The Namer's format and order.  For every time whose year has     *)
(* four digits the name is the prefix followed by fourteen decimal        *)
(* digits, twenty characters in all, and the digits read as year, month,  *)
(* day, hour, minute and second are the UTC date and time of that time;   *)
(* of two such names made at times in different seconds, the one made at  *)
(* the earlier time comes first in lexicographic order; a time whose year *)
(* has fewer or more than four digits ends the run with no directory      *)
(* made.                                                                   *)
DigitValue(c) == (CHOOSE i \in 1..10 : Digit[i] = c) - 1

RECURSIVE Number(_)
Number(str) ==
    IF str = <<>> THEN 0
    ELSE 10 * Number(SubSeq(str, 1, Len(str) - 1)) + DigitValue(str[Len(str)])

(* Days from 1970-01-01 to the day d of month m of year y.                *)
DaysFromCivil(y, m, d) ==
    LET yy  == IF m <= 2 THEN y - 1 ELSE y
        era == yy \div 400
        yoe == yy - era * 400
        mp  == IF m > 2 THEN m - 3 ELSE m + 9
        doy == (153 * mp + 2) \div 5 + d - 1
        doe == yoe * 365 + yoe \div 4 - yoe \div 100 + doy
    IN  era * 146097 + doe - 719468

FourDigitYear(t) ==
    /\ t[1] >= DaysFromCivil(1000, 1, 1)
    /\ t[1] < DaysFromCivil(10000, 1, 1)

Earlier(t, u) == t[1] < u[1] \/ (t[1] = u[1] /\ t[2] < u[2])

(* Lexicographic order of two strings of the same length.                 *)
LexLess(a, b) ==
    \E i \in 1..Len(a) :
        /\ SubSeq(a, 1, i - 1) = SubSeq(b, 1, i - 1)
        /\ \E j, k \in 1..10 : Digit[j] = a[i] /\ Digit[k] = b[i] /\ j < k

NameOf(t, name) ==
    /\ Len(name) = 20
    /\ SubSeq(name, 1, 6) = <<"a", "l", "i", "a", "s", "-">>
    /\ \A i \in 7..20 : \E j \in 1..10 : name[i] = Digit[j]
    /\ Number(SubSeq(name, 11, 12)) \in 1..12
    /\ Number(SubSeq(name, 13, 14)) \in 1..31
    /\ DaysFromCivil(Number(SubSeq(name, 7, 10)),
                     Number(SubSeq(name, 11, 12)),
                     Number(SubSeq(name, 13, 14))) = t[1]
    /\ Number(SubSeq(name, 15, 16)) \in 0..23
    /\ Number(SubSeq(name, 17, 18)) \in 0..59
    /\ Number(SubSeq(name, 19, 20)) \in 0..59
    /\ Number(SubSeq(name, 15, 16)) * 3600
           + Number(SubSeq(name, 17, 18)) * 60
           + Number(SubSeq(name, 19, 20)) = t[2]

Named == pc = "alloc_chown"

NamedBefore == Len(hist) > 0 /\ Prev.status # EXIT_FAILURE

C22_Namer ==
    /\ pc \in {"alloc_chown", "fatal"} =>
          /\ FourDigitYear(now) =>
                \/ Named
                \/ NamedBefore /\ Prev.now = now
          /\ ~FourDigitYear(now) =>
                /\ pc = "fatal"
                /\ loc.new_dbdir_name \notin DOMAIN fs
                /\ ~NamedBefore => DOMAIN fs = {}
    /\ Named =>
          /\ NameOf(now, loc.new_dbdir_name)
          /\ Exists(loc.new_dbdir_name)
    /\ (Named /\ NamedBefore) =>
          /\ Prev.now # now
          /\ Earlier(Prev.now, now) <=> LexLess(Prev.new, loc.new_dbdir_name)
          /\ Earlier(now, Prev.now) <=> LexLess(loc.new_dbdir_name, Prev.new)

(* Two names have been made, the first at 23:59:59 of the last day of a   *)
(* month and the second at 00:00:00 of the next day.                       *)
C22_Witness ==
    /\ Named
    /\ NamedBefore
    /\ Prev.now = <<19630, 86399>>
    /\ now = <<19997, 0>>
    /\ Prev.new = <<"a", "l", "i", "a", "s", "-", "2", "0", "2", "3", "0", "9",
                    "3", "0", "2", "3", "5", "9", "5", "9">>
    /\ loc.new_dbdir_name =
           <<"a", "l", "i", "a", "s", "-", "2", "0", "2", "4", "1", "0",
             "0", "1", "0", "0", "0", "0", "0", "0">>

(* C23 - The new generation is fresh and is never deleted.  The Allocator *)
(* goes on only by making a directory under a name that nothing had; when *)
(* something has the computed name, the alias's own target included, the  *)
(* run ends and nothing is changed; so past the Allocator the new name    *)
(* differs from the old name, and no step of the run removes the new      *)
(* generation or an entry made in it.                                      *)
AllocatorStep ==
    (pc = "alloc" /\ pc' # pc) =>
        \/ /\ pc' = "alloc_chown"
           /\ ~Exists(DirNameAt(now))
           /\ loc'.new_dbdir_name = DirNameAt(now)
           /\ fs'[DirNameAt(now)][Root].type = "dir"
           /\ \A p \in Paths \ {Root} : fs'[DirNameAt(now)][p].type = "none"
           /\ \A n \in DOMAIN fs \ {DirNameAt(now)} : fs'[n] = fs[n]
           /\ conf' = conf
        \/ /\ pc' = "fatal"
           /\ fs' = fs
           /\ conf' = conf

NewKeptStep ==
    (NewMade /\ run' = run) =>
        \A p \in Paths :
            fs[loc.new_dbdir_name][p].type # "none"
                => fs'[loc.new_dbdir_name][p].type
                       = fs[loc.new_dbdir_name][p].type

NewIsFresh ==
    /\ (HasOld /\ HasNew /\ Where # "alloc")
           => loc.new_dbdir_name # loc.old_dbdir_name
    /\ (pc = "fatal" /\ loc.at = "alloc" /\ HasNew
           /\ conf.alias.target = loc.new_dbdir_name)
           => OldIntact

C23_NewIsFresh ==
    [] NewIsFresh /\ [][AllocatorStep]_vars /\ [][NewKeptStep]_vars

(* The second run, started in the second in which the first made its      *)
(* generation, has computed the name the alias now has and has ended.      *)
C23_Witness ==
    /\ run = 2
    /\ pc = "fatal"
    /\ loc.at = "alloc"
    /\ loc.new_dbdir_name = conf.alias.target
    /\ loc.new_dbdir_name = loc.old_dbdir_name
    /\ Exists(loc.new_dbdir_name)
    /\ fs[loc.new_dbdir_name] = snap
    /\ NewComplete

(* C24 - A failed import leaves the new store without the host's         *)
(* records.  When the run has ended in the import, after the deletions,   *)
(* the new generation's store holds the records of the old store whose    *)
(* nickname is not the host name and no other; nothing is put back; the   *)
(* alias names the old generation and the old store holds every record it *)
(* held, the host's included.                                              *)
ImportFailed == pc = "fatal" /\ loc.at = "add_cert"

C24_ImportFailed ==
    ImportFailed =>
        /\ New[Cert8].type = "reg"
        /\ New[Cert8].content =
               {r \in snap[Cert8].content : Nick(r) # env.hostname}
        /\ Rec(env.hostname, env.certfile) \notin New[Cert8].content
        /\ conf.alias.target = loc.old_dbdir_name
        /\ conf.aliasnew.type = "none"
        /\ Old[Cert8].content = snap[Cert8].content
        /\ OldIntact

(* The old store held a record of the host and a record of another name;  *)
(* the import has failed.                                                  *)
C24_Witness ==
    /\ ImportFailed
    /\ \E r \in Old[Cert8].content : Nick(r) = env.hostname
    /\ \E r \in Old[Cert8].content : Nick(r) # env.hostname
    /\ New[Cert8].content # Old[Cert8].content
    /\ New[Cert8].content # {}

(* C25 - The order of the Certificate Store Updater.  The store is        *)
(* initialized, then the input certificate is read and decoded, then the  *)
(* matching records are listed and deleted, then the certificate is       *)
(* imported.  A missing, empty or undecodable input certificate therefore *)
(* ends the run before any record is deleted: the store of the new        *)
(* generation then holds every record copied from the old one.            *)
UpdaterOrder ==
    /\ pc = "nss_init" => pc' \in {"nss_init", "new_cert", "fatal"}
    /\ pc = "new_cert" => pc' \in {"new_cert", "rm_list", "fatal"}
    /\ pc = "rm_list" => pc' \in {"rm_list", "rm_loop", "fatal"}
    /\ pc = "rm_loop" => pc' \in {"rm_loop", "add_cert", "fatal"}
    /\ pc = "add_cert" => pc' \in {"add_cert", "nss_shutdown", "fatal"}
    /\ (pc = "new_cert" /\ env.certfile = 0) => pc' \in {"new_cert", "fatal"}

NothingDeletedYet ==
    /\ New[Cert8].type = "reg"
    /\ New[Cert8].content = snap[Cert8].content

DecodeBeforeDelete ==
    /\ Where \in {"nss_init", "new_cert"} => NothingDeletedYet
    /\ Where \in {"rm_list", "rm_loop", "add_cert"} =>
          (loc.cert # 0 /\ loc.cert = env.certfile)

C25_DecodeBeforeDelete == [] DecodeBeforeDelete /\ [][UpdaterOrder]_vars

(* The input certificate was unusable and the store held records of the   *)
(* host: the run has ended and the records are in the new store.          *)
C25_Witness ==
    /\ pc = "fatal"
    /\ loc.at = "new_cert"
    /\ env.certfile = 0
    /\ \E r \in snap[Cert8].content : Nick(r) = env.hostname
    /\ \E r \in New[Cert8].content : Nick(r) = env.hostname

(* As claimed: when an unusable input certificate is detected the         *)
(* matching records have been deleted.                                     *)
C25_DeleteBeforeDecode ==
    (pc = "fatal" /\ loc.at = "new_cert" /\ env.certfile = 0) =>
        \A r \in New[Cert8].content : Nick(r) # env.hostname

(* C26 - The walks terminate and visit every entry once.  On a finite     *)
(* tree that nobody else writes, the Tree Replicator and the Reaper each  *)
(* come to their end (or to a failure); every entry the tree held when    *)
(* the walk began is taken exactly once, a directory by being entered and *)
(* anything else, a symbolic link to an ancestor, to itself or to the     *)
(* outside included, without being entered; nothing is taken twice.       *)
Walking == pc \in {"tree_walk", "reap_walk"}

(* The entries still to be taken: those named in a frame and what lies    *)
(* under them.                                                             *)
Pending ==
    {p \in Paths \ {Root} :
        /\ HasOld
        /\ Old[p].type # "none"
        /\ \E i \in 1..Len(loc.stack) : \E nm \in loc.stack[i].todo :
              LET q == Append(loc.stack[i].subdir, nm)
              IN Len(q) <= Len(p) /\ SubSeq(p, 1, Len(q)) = q}

Entries == {p \in Paths \ {Root} : Old[p].type # "none"}

WalkStep ==
    /\ (pc \in {"tree_open", "reap_open"} /\ Walking') => Pending' = Entries
    /\ (Walking /\ pc' = pc) =>
          \/ /\ Len(loc'.stack) < Len(loc.stack)
             /\ Top.todo = {}
             /\ Pending' = Pending
          \/ /\ Len(loc'.stack) >= Len(loc.stack)
             /\ \E p \in Pending :
                   /\ Parent(p) = Top.subdir
                   /\ Pending' = Pending \ {p}
                   /\ Len(loc'.stack) > Len(loc.stack) <=> Old[p].type = "dir"
                   /\ Len(loc'.stack) > Len(loc.stack) =>
                         loc'.stack[Len(loc'.stack)].subdir = p
    /\ (Walking /\ pc' \in {"tree_rootmeta", "reap_rmdir"}) => Pending = {}

C26_WalksTerminate ==
    /\ (pc = "tree_open") ~> (pc \in {"tree_rootmeta", "fatal"})
    /\ (pc = "reap_open") ~> (pc \in {"reap_rmdir", "fatal"})
    /\ [][WalkStep]_vars

(* Both walks of a run have ended on a generation whose links name the    *)
(* parent directory, the directory they are in and an ancestor: the copy  *)
(* is complete and the old generation is gone.                             *)
C26_Witness ==
    /\ pc = "close"
    /\ run = 1
    /\ snap[<<"l">>].target = <<".", ".">>
    /\ snap[<<"d", "g">>].target = <<".">>
    /\ snap[<<"d", "e", "h">>].target = <<".", ".", "/", ".", ".">>
    /\ \A p \in Paths \ {Root} : New[p].type = snap[p].type
    /\ \A p \in {<<"l">>, <<"d", "g">>, <<"d", "e", "h">>} :
          New[p].type = "lnk" /\ New[p].target = snap[p].target
    /\ \A p \in Paths : Old[p].type = "none"

(* C27 - The Reaper deletes the old generation only.  No step of the      *)
(* Reaper changes the alias, alias.new or any other generation, the new   *)
(* one included; in the old generation it only removes entries; a         *)
(* symbolic link is removed as a link, whatever it names.                  *)
ReaperFrame ==
    pc \in ReaperSteps =>
        /\ conf' = conf
        /\ \A n \in DOMAIN fs \ {loc.old_dbdir_name} : fs'[n] = fs[n]
        /\ \A p \in Paths :
              \/ fs'[loc.old_dbdir_name][p] = NoEnt
              \/ fs'[loc.old_dbdir_name][p]
                    = [Old[p] EXCEPT
                         !.mtime = fs'[loc.old_dbdir_name][p].mtime]
        /\ pc' = "reap_walk" =>
              \A p \in Pending \ Pending' :
                  Old[p].type = "lnk" => fs'[loc.old_dbdir_name][p] = NoEnt

C27_ReaperFrame == [][ReaperFrame]_vars

(* The old generation held a link to the new one; the Reaper has removed  *)
(* the old generation, and the new one is complete and has the link.      *)
C27_Witness ==
    /\ pc = "close"
    /\ snap[<<"l">>].type = "lnk"
    /\ snap[<<"l">>].target = UpTo(loc.new_dbdir_name)
    /\ ~Exists(loc.old_dbdir_name)
    /\ conf.alias.target = loc.new_dbdir_name
    /\ NewComplete
    /\ New[<<"l">>].target = UpTo(loc.new_dbdir_name)
    /\ New[<<"d", "g">>].target = <<"/", "e", "t", "c">>

(* C28 - Handles are scoped.  Between two components the process holds    *)
(* the configuration directory's handle and the handles handed back to    *)
(* main (the old generation's, then the new one's as well) and no other;  *)
(* inside a walk it holds, besides, one directory stream and a fixed      *)
(* number of handles for each directory level it is in, so the number is  *)
(* the same after an entry as before it and grows with the depth, not     *)
(* with the number of entries; a run that ends, with success or by exit   *)
(* on a failure, holds none.                                               *)
Depth == Len(Top.subdir)

HandlesScoped ==
    /\ pc \in {"done", "fatal"} => loc.fds = 0
    /\ pc = "resolve" => loc.fds = 1
    /\ pc \in {"alloc", "alloc_chown"} => loc.fds = 2
    /\ pc \in {"sf_open", "tree_open", "tree_rootmeta", "reap_open",
                "reap_rmdir", "close"} \cup SwitchSteps \cup UpdaterSteps
                                       \cup {"swap_symlink", "swap_rename"}
          => loc.fds = 3
    /\ pc \in {"sf_copy", "sf_check", "sf_meta"} => loc.fds = 5
    /\ pc = "swap_chown" => loc.fds = 4
    /\ Walking => Len(loc.stack) = Depth + 1
    /\ pc = "tree_walk" => loc.fds = 4 + 4 * Depth
    /\ pc = "reap_walk" => loc.fds = 4 + 2 * Depth

EntryHandles ==
    (Walking /\ pc' = pc /\ Len(loc'.stack) = Len(loc.stack))
        => loc'.fds = loc.fds

OtherBits(m) == m % 8

Grants(m, b) == (m \div b) % 2 = 1

CreatedMode(p) ==
    IF p = Root THEN MODE_NEWDIR
    ELSE IF p \in StoreNames THEN MODE_DBFILE
    ELSE IF snap[p].type = "dir" THEN MODE_SUBDIR
    ELSE MODE_FILE

C29_NoWidening ==
    (HasNew /\ Where # "alloc" /\ Exists(loc.new_dbdir_name)) =>
        \A p \in Paths :
            New[p].type \in {"reg", "dir"} =>
                /\ New[p].mode \in {CreatedMode(p), snap[p].mode}
                /\ OtherBits(CreatedMode(p)) = 0
                /\ \A b \in {1, 2, 4} :
                      Grants(New[p].mode, b) => Grants(snap[p].mode, b)

(* The Replicator is inside a subdirectory whose source others may read   *)
(* and search: the copy is still closed to them, while a file copied      *)
(* before has its source's mode.                                           *)
C29_Witness ==
    /\ pc = "tree_walk"
    /\ Top.subdir = <<"d">>
    /\ OtherBits(snap[<<"d">>].mode) = 5
    /\ New[<<"d">>].mode = MODE_SUBDIR
    /\ New[Root].mode = MODE_NEWDIR
    /\ OtherBits(snap[Root].mode) = 5
    /\ New[<<"f">>].type = "reg"
    /\ New[<<"f">>].mode = snap[<<"f">>].mode
    /\ OtherBits(New[<<"f">>].mode) = 4
    /\ New[<<"secmod.db">>].mode = MODE_DBFILE
    /\ OtherBits(snap[<<"secmod.db">>].mode) = 4

====
